---- MODULE Spec2Model ----
(***************************************************************************)
(* VlogSphere backend: the content-analysis service (services/aiService)   *)
(* and the vlog controller operations that call it.                        *)
(*                                                                         *)
(* JavaScript strings are TLA+ strings (sequences of characters): Len,     *)
(* SubSeq and \o act on them.  A JavaScript value that need not be a       *)
(* string is a record [t |-> "string", s |-> ...], [t |-> "null"],         *)
(* [t |-> "undefined"], [t |-> "number", n |-> ...] or [t |-> "object"].   *)
(***************************************************************************)
EXTENDS Integers, Sequences, FiniteSets, TLC

VARIABLES
  tableWrites,    \* aiService: the writes made to COMMON_TAGS, CATEGORY_TAGS and
                  \* stopwords since the module was loaded, oldest first
  call,           \* the aiService call that has just returned, or NoCall
  ret,            \* what that call returned to its caller
  probe,          \* an earlier call and its result, kept for comparison
  env,            \* process.env: AI_TAGGING_ENABLED and MIN_DESCRIPTION_LENGTH
  vlogs,          \* the vlogs collection: the document stored under each id
  last,           \* the request the vlog controller handled last, with its response
  bookmarks,      \* the users collection: the bookmarks array of each user
  pending,        \* the requests a handler has started and not yet answered
  users,          \* the users collection: the other paths of each user's document
  clock           \* the time in seconds, as jwt.sign reads it

aiVars == <<tableWrites, call, ret, probe>>
vlogVars == <<env, vlogs, last>>
appVars == <<env, vlogs, last, bookmarks, pending, users, clock>>
vars == <<tableWrites, call, ret, probe, env, vlogs, last, bookmarks, pending, users, clock>>

-----------------------------------------------------------------------------
(* Bounds of the model *)

MaxDescWords == 2    \* pieces in a description given to generateTags, suggestCategories, analyzeSentiment
MaxPhraseWords == 3  \* pieces in a description given to extractKeyPhrases
MaxCount == 2        \* largest maxTags / maxPhrases argument tried
MaxNegCount == 1     \* how far below zero maxTags / maxPhrases is tried
MaxTagList == 1      \* entries in the tags argument of suggestCategories
MaxVlogs == 1        \* vlogs created in one behaviour
MaxFiles == 1        \* image files uploaded with one request
MaxRequests == 2     \* requests the vlog controller handles in one behaviour
MaxSteps == 3        \* requests to the vlog routes in one behaviour
MaxOverlap == 2      \* requests that overlap in one behaviour
MaxTargets == 3      \* ids a bookmark request may name
MaxBookmarkSteps == 4 \* bookmark requests handled one after the other in one behaviour
MaxFollowSteps == 3  \* follow and unfollow requests handled in one behaviour
MaxLikeSteps == 3    \* like and dislike requests handled one after the other in one behaviour
MaxTokenSteps == 4   \* requests to the auth routes handled in one behaviour
MaxClock == 1        \* seconds that pass in one behaviour
MaxActiveSteps == 2  \* requests through protect and optionalAuth in one behaviour

-----------------------------------------------------------------------------
(* Characters and strings *)

LowerCase == "abcdefghijklmnopqrstuvwxyz"
UpperCase == "ABCDEFGHIJKLMNOPQRSTUVWXYZ"
Digits == "0123456789"

Chars(s) == {SubSeq(s, i, i) : i \in 1..Len(s)}

\* the regular expression class \w
WordChars == Chars(LowerCase) \cup Chars(UpperCase) \cup Chars(Digits) \cup {"_"}

\* the regular expression class \s, as far as the inputs use it
SpaceChars == {" ", "\t", "\n"}

\* the characters that are neither \w nor \s, as far as the inputs use them
Punctuation == {".", "!", "?", ",", ";", ":", "'", "-", "[", "]"}

AllChars == WordChars \cup SpaceChars \cup Punctuation

\* String.prototype.toLowerCase on one character
lowerChar(c) ==
  IF \E i \in 1..Len(UpperCase) : SubSeq(UpperCase, i, i) = c
  THEN LET i == CHOOSE k \in 1..Len(UpperCase) : SubSeq(UpperCase, k, k) = c
       IN SubSeq(LowerCase, i, i)
  ELSE c

RECURSIVE toLowerCase(_)
toLowerCase(s) ==
  IF s = "" THEN "" ELSE lowerChar(SubSeq(s, 1, 1)) \o toLowerCase(Tail(s))

\* String.prototype.includes
includes(s, t) ==
  \E i \in 0..(Len(s) - Len(t)) : SubSeq(s, i + 1, i + Len(t)) = t

\* String.prototype.trim
RECURSIVE trimStart(_)
trimStart(s) ==
  IF s # "" /\ SubSeq(s, 1, 1) \in SpaceChars THEN trimStart(Tail(s)) ELSE s

RECURSIVE trimEnd(_)
trimEnd(s) ==
  IF s # "" /\ SubSeq(s, Len(s), Len(s)) \in SpaceChars
  THEN trimEnd(SubSeq(s, 1, Len(s) - 1))
  ELSE s

trim(s) == trimEnd(trimStart(s))

\* s.replace(/[^\w\s]/g, r): every character that is neither \w nor \s becomes r
RECURSIVE replacePunctuation(_, _)
replacePunctuation(s, r) ==
  IF s = "" THEN ""
  ELSE LET c == SubSeq(s, 1, 1)
       IN (IF c \in WordChars \cup SpaceChars THEN c ELSE r)
            \o replacePunctuation(Tail(s), r)

\* s.replace(/\s+/g, ' '): every run of whitespace becomes one space
RECURSIVE collapseSpaces(_)
collapseSpaces(s) ==
  IF s = "" THEN ""
  ELSE LET c == SubSeq(s, 1, 1)
       IN IF c \in SpaceChars
          THEN " " \o collapseSpaces(trimStart(Tail(s)))
          ELSE c \o collapseSpaces(Tail(s))

\* s.split(re) where re matches the maximal runs of characters outside `keep`;
\* the list of pieces, the empty ones included as JavaScript includes them
RECURSIVE splitRuns(_, _, _, _)
splitRuns(s, keep, cur, inSep) ==
  IF s = "" THEN <<cur>>
  ELSE LET c == SubSeq(s, 1, 1)
       IN IF c \in keep
          THEN splitRuns(Tail(s), keep, cur \o c, FALSE)
          ELSE IF inSep
               THEN splitRuns(Tail(s), keep, cur, TRUE)
               ELSE <<cur>> \o splitRuns(Tail(s), keep, "", TRUE)

split(s, keep) == splitRuns(s, keep, "", FALSE)

\* Array.prototype.filter is SelectSeq.

\* Array.prototype.includes / membership in a list
inList(xs, x) == \E i \in 1..Len(xs) : xs[i] = x

\* Array.prototype.slice(0, n): a negative n counts from the end
slice0(xs, n) ==
  LET end == IF n < 0 THEN (IF Len(xs) + n < 0 THEN 0 ELSE Len(xs) + n)
             ELSE (IF n > Len(xs) THEN Len(xs) ELSE n)
  IN SubSeq(xs, 1, end)

\* [...new Set(xs)]: first occurrences, in order
RECURSIVE unique(_)
unique(xs) ==
  IF xs = <<>> THEN <<>>
  ELSE LET init == unique(SubSeq(xs, 1, Len(xs) - 1))
           x == xs[Len(xs)]
       IN IF inList(init, x) THEN init ELSE Append(init, x)

\* Array.prototype.join(' ')
RECURSIVE join(_)
join(xs) ==
  IF xs = <<>> THEN ""
  ELSE IF Len(xs) = 1 THEN xs[1]
  ELSE xs[1] \o " " \o join(Tail(xs))

\* the number of entries of xs equal to x
RECURSIVE count(_, _)
count(xs, x) ==
  IF xs = <<>> THEN 0
  ELSE (IF Head(xs) = x THEN 1 ELSE 0) + count(Tail(xs), x)

\* entries.sort(([,a],[,b]) => b - a) on the keys of entries, scores[i] being
\* the value of keys[i]: the sort is stable, so it yields the first key of
\* greatest score, then the rest in the same way
RECURSIVE sortByScoreDesc(_, _)
sortByScoreDesc(keys, scores) ==
  IF keys = <<>> THEN <<>>
  ELSE LET best == CHOOSE i \in 1..Len(keys) :
                     /\ \A j \in 1..Len(keys) : scores[j] <= scores[i]
                     /\ \A j \in 1..(i - 1) : scores[j] < scores[i]
           drop(xs) == SubSeq(xs, 1, best - 1) \o SubSeq(xs, best + 1, Len(xs))
       IN <<keys[best]>> \o sortByScoreDesc(drop(keys), drop(scores))

-----------------------------------------------------------------------------
(* JavaScript values *)

Str(s) == [t |-> "string", s |-> s]
Num(n) == [t |-> "number", n |-> n]
Arr(xs) == [t |-> "array", list |-> xs]
Null == [t |-> "null"]
Undefined == [t |-> "undefined"]
Obj == [t |-> "object"]
Bool(b) == [t |-> "boolean", b |-> b]

\* ToBoolean
truthy(v) ==
  CASE v.t = "string" -> v.s # ""
    [] v.t = "number" -> v.n # 0
    [] v.t \in {"null", "undefined"} -> FALSE
    [] v.t = "boolean" -> v.b
    [] OTHER -> TRUE

\* decimal digits of a natural number
RECURSIVE natToString(_)
natToString(n) ==
  IF n < 10 THEN SubSeq(Digits, n + 1, n + 1)
  ELSE natToString(n \div 10) \o SubSeq(Digits, (n % 10) + 1, (n % 10) + 1)

\* ToString, as string concatenation and property keys apply it
toString(v) ==
  CASE v.t = "string" -> v.s
    [] v.t = "number" -> IF v.n < 0 THEN "-" \o natToString(0 - v.n) ELSE natToString(v.n)
    [] v.t = "null" -> "null"
    [] v.t = "undefined" -> "undefined"
    [] v.t = "array" -> "array"
    [] OTHER -> "[object Object]"

\* a default parameter value applies when the argument is undefined
orDefault(v, d) == IF v.t = "undefined" THEN d ELSE v

\* what a call hands to its caller
Returns(v) == [kind |-> "returns", value |-> v]
Throws == [kind |-> "throws"]

-----------------------------------------------------------------------------
(* The tables of aiService *)

\* COMMON_TAGS as the module defines it
CommonTagsTable ==
  << "vlog", "daily", "life", "adventure", "travel", "food", "tech",
     "lifestyle", "fitness", "music", "art", "photography", "diy",
     "tutorial", "review", "challenge", "comedy", "gaming", "sports",
     "health", "education", "business", "entertainment", "fashion",
     "beauty", "cooking", "nature", "city", "culture", "experience" >>

\* CATEGORY_TAGS as the module defines it: its own properties in insertion
\* order (the order of Object.entries), each with its keyword list
CategoryTagsTable ==
  << [name |-> "technology", keywords |->
       << "tech", "gadget", "software", "hardware", "innovation",
          "digital", "AI", "coding", "programming" >>],
     [name |-> "travel", keywords |->
       << "travel", "adventure", "explore", "journey", "destination",
          "culture", "vacation", "trip", "wanderlust" >>],
     [name |-> "lifestyle", keywords |->
       << "lifestyle", "daily", "routine", "habits", "wellness",
          "mindfulness", "productivity", "selfcare" >>],
     [name |-> "food", keywords |->
       << "food", "cooking", "recipe", "kitchen", "culinary",
          "delicious", "meal", "restaurant", "taste" >>],
     [name |-> "fashion", keywords |->
       << "fashion", "style", "outfit", "clothing", "trend", "design",
          "wardrobe", "accessories" >>],
     [name |-> "fitness", keywords |->
       << "fitness", "workout", "exercise", "health", "gym",
          "training", "strength", "cardio", "yoga" >>],
     [name |-> "music", keywords |->
       << "music", "song", "melody", "performance", "concert",
          "instrument", "band", "artist", "rhythm" >>],
     [name |-> "art", keywords |->
       << "art", "creative", "painting", "drawing", "design", "artist",
          "gallery", "masterpiece", "inspiration" >>],
     [name |-> "business", keywords |->
       << "business", "entrepreneur", "startup", "marketing",
          "success", "leadership", "strategy", "growth" >>],
     [name |-> "education", keywords |->
       << "education", "learning", "tutorial", "knowledge", "study",
          "lesson", "teaching", "skill" >>],
     [name |-> "entertainment", keywords |->
       << "entertainment", "fun", "show", "performance", "comedy",
          "drama", "movie", "celebrity" >>],
     [name |-> "gaming", keywords |->
       << "gaming", "game", "playthrough", "stream", "esports",
          "console", "pc", "multiplayer" >>],
     [name |-> "sports", keywords |->
       << "sports", "athlete", "competition", "training", "game",
          "championship", "fitness", "exercise" >>],
     [name |-> "health", keywords |->
       << "health", "wellness", "medical", "nutrition", "mentalhealth",
          "selfcare", "healing", "recovery" >>],
     [name |-> "science", keywords |->
       << "science", "research", "discovery", "experiment",
          "laboratory", "technology", "innovation" >>],
     [name |-> "photography", keywords |->
       << "photography", "photo", "camera", "shoot", "portrait",
          "landscape", "editing", "visual" >>],
     [name |-> "diy", keywords |->
       << "diy", "craft", "handmade", "project", "creative", "build",
          "make", "tutorial" >>],
     [name |-> "other", keywords |->
       << "vlog", "video", "content", "creator", "youtube", "social",
          "media" >>] >>

\* natural.stopwords, the English stopword list of the `natural` package
StopwordsTable ==
  { "about", "above", "after", "again", "all", "also", "am", "an",
    "and", "another", "any", "are", "as", "at", "be", "because",
    "been", "before", "being", "below", "between", "both", "but", "by",
    "came", "can", "cannot", "come", "could", "did", "do", "does",
    "doing", "during", "each", "few", "for", "from", "further", "get",
    "got", "has", "had", "he", "have", "her", "here", "him", "himself",
    "his", "how", "if", "in", "into", "is", "it", "its", "itself",
    "like", "make", "many", "me", "might", "more", "most", "much",
    "must", "my", "myself", "never", "now", "of", "on", "only", "or",
    "other", "our", "ours", "ourselves", "out", "over", "own", "said",
    "same", "see", "should", "since", "so", "some", "still", "such",
    "take", "than", "that", "the", "their", "theirs", "them",
    "themselves", "then", "there", "these", "they", "this", "those",
    "through", "to", "too", "under", "until", "up", "very", "was",
    "way", "we", "well", "were", "what", "where", "when", "which",
    "while", "who", "whom", "with", "would", "why", "you", "your",
    "yours", "yourself", "a", "b", "c", "d", "e", "f", "g", "h", "i",
    "j", "k", "l", "m", "n", "o", "p", "q", "r", "s", "t", "u", "v",
    "w", "x", "y", "z", "$", "1", "2", "3", "4", "5", "6", "7", "8",
    "9", "0", "_" }

\* what has been pushed onto the table (or the keyword list) `name`
pushed(name) ==
  LET ws == SelectSeq(tableWrites, LAMBDA w : w.table = name)
  IN [i \in 1..Len(ws) |-> ws[i].push]

\* the tables as they are now: as loaded, with the writes made since
COMMON_TAGS == CommonTagsTable \o pushed("COMMON_TAGS")

CATEGORY_TAGS ==
  [i \in 1..Len(CategoryTagsTable) |->
     [name |-> CategoryTagsTable[i].name,
      keywords |-> CategoryTagsTable[i].keywords \o pushed(CategoryTagsTable[i].name)]]

stopwords == StopwordsTable \cup {pushed("stopwords")[i] : i \in 1..Len(pushed("stopwords"))}

\* the property names every plain object inherits from Object.prototype
ObjectPrototypeKeys ==
  { "constructor", "toString", "toLocaleString", "valueOf", "hasOwnProperty",
    "isPrototypeOf", "propertyIsEnumerable", "__proto__", "__defineGetter__",
    "__defineSetter__", "__lookupGetter__", "__lookupSetter__" }

\* Object.keys(table)
keys(table) == [i \in 1..Len(table) |-> table[i].name]

\* table[key] on a plain object: an own property, else an inherited one (a
\* function or an object, never an array), else undefined
getProperty(table, key) ==
  IF \E i \in 1..Len(table) : table[i].name = key
  THEN Arr(table[CHOOSE i \in 1..Len(table) : table[i].name = key].keywords)
  ELSE IF key \in ObjectPrototypeKeys THEN Obj
  ELSE Undefined

\* how many of the most frequent words generateTags keeps
TopWords == 15

\* the default of generateTags' maxTags and of extractKeyPhrases' maxPhrases
DefaultMaxTags == 8
DefaultMaxPhrases == 5

\* how many categories suggestCategories returns
TopCategories == 3

-----------------------------------------------------------------------------
(* generateTags *)

\* description.toLowerCase().replace(/[^\w\s]/g, ' ').replace(/\s+/g, ' ').trim()
cleanText(s) == trim(collapseSpaces(replacePunctuation(toLowerCase(s), " ")))

\* natural.WordTokenizer.tokenize: the maximal runs of [A-Za-z0-9_] (the build's
\* pattern also keeps Cyrillic letters, which the inputs here do not hold)
tokenize(s) == SelectSeq(split(s, WordChars), LAMBDA w : w # "")

isNumber(w) == w # "" /\ Chars(w) \subseteq Chars(Digits)

\* tokens.filter(...): longer than 2, no stopword, not all digits
filteredTokens(text) ==
  SelectSeq(tokenize(text),
         LAMBDA w : Len(w) > 2 /\ w \notin stopwords /\ ~isNumber(w))

\* Object.entries(wordFreq).sort(by count, descending).slice(0, 15): the
\* distinct words in order of first occurrence, sorted stably by their count
sortedWords(words) ==
  LET distinct == unique(words)
  IN slice0(sortByScoreDesc(distinct,
                            [i \in 1..Len(distinct) |-> count(words, distinct[i])]),
            TopWords)

\* relevantCategoryTags by the frequent words alone
relevantByWordsAlone(categoryTags, text, sorted) ==
  SelectSeq(categoryTags,
         LAMBDA tag : \E i \in 1..Len(sorted) : includes(tag, sorted[i]))

\* the keywords of the category that the text or a frequent word points to
relevantCategoryTags(categoryTags, text, sorted) ==
  SelectSeq(categoryTags,
         LAMBDA tag : \/ includes(text, tag)
                      \/ \E i \in 1..Len(sorted) : includes(tag, sorted[i]))

\* the candidate tags in priority order
allPotentialTags(relevant, text, sorted) ==
  relevant
  \o SelectSeq(sorted,
            LAMBDA word : /\ ~inList(relevant, word)
                          /\ \E i \in 1..Len(COMMON_TAGS) :
                               \/ includes(word, COMMON_TAGS[i])
                               \/ includes(COMMON_TAGS[i], word))
  \o SelectSeq(COMMON_TAGS, LAMBDA tag : includes(text, tag))

\* uniqueTags without the cut to maxTags
uniqueTagsNoSlice(all, maxTags) ==
  SelectSeq(unique(all), LAMBDA tag : Len(tag) >= 3)

\* [...new Set(all)].slice(0, maxTags).filter(tag => tag.length >= 3)
uniqueTags(all, maxTags) ==
  SelectSeq(slice0(unique(all), maxTags), LAMBDA tag : Len(tag) >= 3)

\* the body of the try block: what it returns, or "TypeError" when
\* CATEGORY_TAGS[category] is neither undefined nor an array, so that
\* .filter is not a function
generateTagsTry(description, category, maxTags) ==
  LET text == cleanText(description.s)
      sorted == sortedWords(filteredTokens(text))
      found == getProperty(CATEGORY_TAGS, toString(category))
      categorySpecificTags ==
        IF truthy(found) THEN found ELSE getProperty(CATEGORY_TAGS, "other")
  IN IF categorySpecificTags.t # "array" THEN Throws
     ELSE LET relevant == relevantCategoryTags(categorySpecificTags.list, text, sorted)
          IN Returns(uniqueTags(allPotentialTags(relevant, text, sorted), maxTags.n))

\* generateTags without its guard and without its catch
generateTagsUnguarded(description, categoryArg, maxTagsArg) ==
  IF description.t # "string" THEN Throws
  ELSE generateTagsTry(description, orDefault(categoryArg, Str("other")),
                       orDefault(maxTagsArg, Num(DefaultMaxTags)))

generateTags(description, categoryArg, maxTagsArg) ==
  LET category == orDefault(categoryArg, Str("other"))
      maxTags == orDefault(maxTagsArg, Num(DefaultMaxTags))
  IN IF ~truthy(description) \/ description.t # "string" THEN Returns(<<>>)
     ELSE LET r == generateTagsTry(description, category, maxTags)
          IN IF r.kind = "throws" THEN Returns(<<>>) ELSE r

-----------------------------------------------------------------------------
(* suggestCategories *)

\* the number of the category's keywords that occur in the text
categoryScore(keywords, text) ==
  Cardinality({k \in 1..Len(keywords) : includes(text, keywords[k])})

\* Object.entries(categoryScores): the categories of score > 0, in table order
scoredCategories(text) ==
  SelectSeq(keys(CATEGORY_TAGS),
         LAMBDA c : categoryScore(getProperty(CATEGORY_TAGS, c).list, text) > 0)

\* suggestCategoriesTry without the sort by score
suggestCategoriesUnsorted(description, tags) ==
  IF tags.t # "array" THEN Throws
  ELSE Returns(slice0(scoredCategories(
                        toLowerCase(toString(description) \o " " \o join(tags.list))),
                      TopCategories))

\* the body of the try block; tags.join throws unless tags is an array
suggestCategoriesTry(description, tags) ==
  IF tags.t # "array" THEN Throws
  ELSE LET text == toLowerCase(toString(description) \o " " \o join(tags.list))
           scored == scoredCategories(text)
           scores == [i \in 1..Len(scored) |->
                        categoryScore(getProperty(CATEGORY_TAGS, scored[i]).list, text)]
       IN Returns(slice0(sortByScoreDesc(scored, scores), TopCategories))

suggestCategories(description, tagsArg) ==
  LET r == suggestCategoriesTry(description, orDefault(tagsArg, Arr(<<>>)))
  IN IF r.kind = "throws" THEN Returns(<<>>) ELSE r

-----------------------------------------------------------------------------
(* analyzeSentiment *)

\* word -> polarity: the entries of the AFINN lexicon that the analyzer of
\* `natural` holds for the words the inputs use (stemming identifies the
\* inflected forms of a word, which the inputs do not hold)
AfinnTable ==
  { <<"love", 3>>, <<"amazing", 4>>, <<"wonderful", 4>>,
    <<"hate", -3>>, <<"terrible", -3>>, <<"awful", -3>> }

polarity(word) ==
  IF \E e \in AfinnTable : e[1] = word
  THEN (CHOOSE e \in AfinnTable : e[1] = word)[2]
  ELSE 0

RECURSIVE polaritySum(_)
polaritySum(tokens) ==
  IF tokens = <<>> THEN 0 ELSE polarity(Head(tokens)) + polaritySum(Tail(tokens))

\* SentimentAnalyzer.getSentiment: the sum of the polarities over the number
\* of tokens, as the pair <<sum, number>> (0/0 is NaN)
getSentiment(tokens) == <<polaritySum(tokens), Len(tokens)>>

\* score > 0.1, score < -0.1, otherwise (NaN compares false both times)
sentimentLabel(score) ==
  IF score[2] > 0 /\ 10 * score[1] > score[2] THEN "positive"
  ELSE IF score[2] > 0 /\ 10 * score[1] < 0 - score[2] THEN "negative"
  ELSE "neutral"

\* the builds of `natural`: WordTokenizer is an ES6 class, or a constructor function
NaturalBuilds == {"class", "function"}

\* natural.WordTokenizer() called without `new`: a class constructor throws a
\* TypeError; a constructor function runs with `this` bound to the module
\* object and returns undefined
wordTokenizerCall(build) ==
  IF build = "class" THEN Throws ELSE Returns(Undefined)

\* the body of the try block
analyzeSentimentTry(description, build) ==
  LET tokenizer == wordTokenizerCall(build)
  IN IF tokenizer.kind = "throws" THEN Throws
     ELSE IF tokenizer.value.t \in {"undefined", "null"} THEN Throws
     ELSE IF description.t # "string" THEN Throws
     ELSE Returns(sentimentLabel(getSentiment(tokenize(toLowerCase(description.s)))))

\* analyzeSentiment without its catch
analyzeSentimentNoCatch(description, build) == analyzeSentimentTry(description, build)

analyzeSentiment(description, build) ==
  LET r == analyzeSentimentTry(description, build)
  IN IF r.kind = "throws" THEN Returns("neutral") ELSE r

-----------------------------------------------------------------------------
(* extractKeyPhrases *)

\* description.split(/[.!?]+/).filter(s => s.trim().length > 0)
sentencesOf(s) ==
  SelectSeq(split(s, AllChars \ {".", "!", "?"}), LAMBDA x : Len(trim(x)) > 0)

\* the words of a sentence: lowercased, punctuation removed, split on
\* whitespace, longer than 2 and no stopword
wordsOf(sentence) ==
  SelectSeq(split(replacePunctuation(toLowerCase(sentence), ""), AllChars \ SpaceChars),
         LAMBDA w : Len(w) > 2 /\ w \notin stopwords)

\* the loop over i: the trigram at i if it is longer than 8, then the bigram
\* at i if it is longer than 5
RECURSIVE ngramsFrom(_, _)
ngramsFrom(words, i) ==
  IF i >= Len(words) THEN <<>>
  ELSE LET trigram == join(SubSeq(words, i, i + 2))
           bigram == join(SubSeq(words, i, i + 1))
       IN (IF i < Len(words) - 1 /\ Len(trigram) > 8 THEN <<trigram>> ELSE <<>>)
            \o (IF Len(bigram) > 5 THEN <<bigram>> ELSE <<>>)
            \o ngramsFrom(words, i + 1)

RECURSIVE phrasesOf(_)
phrasesOf(sentences) ==
  IF sentences = <<>> THEN <<>>
  ELSE ngramsFrom(wordsOf(Head(sentences)), 1) \o phrasesOf(Tail(sentences))

\* extractKeyPhrasesTry without the cut to maxPhrases
extractKeyPhrasesNoSlice(description, maxPhrases) ==
  IF description.t # "string" THEN Throws
  ELSE LET phrases == phrasesOf(sentencesOf(description.s))
           distinct == unique(phrases)
           freq == [i \in 1..Len(distinct) |-> count(phrases, distinct[i])]
       IN Returns(sortByScoreDesc(distinct, freq))

\* the body of the try block; description.split throws unless description
\* is a string
extractKeyPhrasesTry(description, maxPhrases) ==
  IF description.t # "string" THEN Throws
  ELSE LET phrases == phrasesOf(sentencesOf(description.s))
           distinct == unique(phrases)
           freq == [i \in 1..Len(distinct) |-> count(phrases, distinct[i])]
       IN Returns(slice0(sortByScoreDesc(distinct, freq), maxPhrases.n))

extractKeyPhrases(description, maxPhrasesArg) ==
  LET r == extractKeyPhrasesTry(description, orDefault(maxPhrasesArg, Num(DefaultMaxPhrases)))
  IN IF r.kind = "throws" THEN Returns(<<>>) ELSE r

-----------------------------------------------------------------------------
(* The arguments the service is called with *)

\* the strings of at most n pieces, joined by single spaces
RECURSIVE Sentences(_, _)
Sentences(pieces, n) ==
  IF n = 0 THEN {""}
  ELSE LET shorter == Sentences(pieces, n - 1)
       IN shorter \cup {IF d = "" THEN p ELSE d \o " " \o p : d \in shorter, p \in pieces}

NonStrings == {Null, Undefined, Num(0), Num(42), Obj}

TagPieces == {"Travel", "vlog,", "pc", "games", "tech", "the", "42"}
SentimentPieces == {"love", "hate", "Amazing", "the", "vlog,"}
PhrasePieces == {"Home", "workout", "routine.", "the", "pc"}

TagDescriptions == {Str(d) : d \in Sentences(TagPieces, MaxDescWords)} \cup NonStrings
SentimentDescriptions ==
  {Str(d) : d \in Sentences(SentimentPieces, MaxDescWords)} \cup NonStrings
PhraseDescriptions ==
  {Str(d) : d \in Sentences(PhrasePieces, MaxPhraseWords)} \cup NonStrings

\* category arguments: taxonomy names, other strings, names of inherited
\* properties, and no argument
Categories ==
  {Undefined, Str("travel"), Str("gaming"), Str("science"), Str("other"),
   Str("vlogging"), Str("constructor")}

\* maxTags / maxPhrases arguments
Counts == {Undefined} \cup {Num(n) : n \in (0 - MaxNegCount)..MaxCount}

RECURSIVE ListsOf(_, _)
ListsOf(S, n) ==
  IF n = 0 THEN {<<>>}
  ELSE LET shorter == ListsOf(S, n - 1)
       IN shorter \cup {Append(xs, x) : xs \in shorter, x \in S}

\* tags arguments of suggestCategories
TagLists == {Undefined, Null} \cup {Arr(xs) : xs \in ListsOf({"food", "Art"}, MaxTagList)}

NoCall == [fn |-> "none"]
NoProbe == [set |-> FALSE]

\* the calls whose result is kept, to compare a later identical call with
ProbeCalls ==
  { [fn |-> "generateTags", description |-> Str("Travel vlog,"),
     category |-> Str("travel"), maxTags |-> Num(1)],
    [fn |-> "generateTags", description |-> Str("games pc"),
     category |-> Str("constructor"), maxTags |-> Undefined],
    [fn |-> "suggestCategories", description |-> Str("Travel games"),
     tags |-> Arr(<<"food">>)],
    [fn |-> "analyzeSentiment", description |-> Str("love Amazing")],
    [fn |-> "extractKeyPhrases", description |-> Str("Home workout routine."),
     maxPhrases |-> Num(2)] }

-----------------------------------------------------------------------------
(* The Vlog model (models/Vlog) as the controller uses it.  A document is  *)
(* kept with the fields the controller's own logic reads or writes: title, *)
(* description, images, author, tags and aiGeneratedTags; an image is its  *)
(* publicId.  Requests carry valid values for the other schema fields.     *)

TitleMinLength == 3
TitleMaxLength == 100
DescriptionMinLength == 10
DescriptionMaxLength == 2000
TagMaxLength == 30
MaxImages == 10

VlogIds == 1..MaxVlogs

\* no document has been stored under the id yet
Unused == [state |-> "unused"]

\* the document stored under the id has been deleted
Deleted == [state |-> "deleted"]

\* Model.findById(id) finds a document
found(vlog) == vlog.state = "live"

\* the String setters of a tag: trim and lowercase
castTag(tag) == toLowerCase(trim(tag))

\* a [String] path: its elements cast, the empty array when the path is absent
castTags(v) ==
  IF v.t = "array" THEN [i \in 1..Len(v.list) |-> castTag(v.list[i])] ELSE <<>>

castImages(v) == IF v.t = "array" THEN v.list ELSE <<>>

\* a Boolean path of default false
castBoolean(v) == IF v.t = "boolean" THEN v.b ELSE FALSE

validTitle(v) ==
  /\ v.t = "string"
  /\ Len(trim(v.s)) >= TitleMinLength
  /\ Len(trim(v.s)) <= TitleMaxLength

validDescription(v) ==
  /\ v.t = "string"
  /\ Len(v.s) >= DescriptionMinLength
  /\ Len(v.s) <= DescriptionMaxLength

validTags(v) ==
  LET tags == castTags(v) IN \A i \in 1..Len(tags) : Len(tags[i]) <= TagMaxLength

\* document validation, as save() runs it: the required paths and the lengths
validDocument(body) ==
  /\ validTitle(body.title)
  /\ validDescription(body.description)
  /\ validTags(body.tags)
  /\ body.author.t = "string"

\* the document Vlog.create(body) stores
newDocument(body) ==
  [state |-> "live",
   title |-> trim(body.title.s),
   description |-> body.description.s,
   images |-> castImages(body.images),
   author |-> body.author.s,
   tags |-> castTags(body.tags),
   aiGeneratedTags |-> castBoolean(body.aiGeneratedTags),
   views |-> 0,
   userViews |-> <<>>,
   likes |-> <<>>,
   dislikes |-> <<>>,
   version |-> 0]

\* update validation (runValidators: true): the paths the update sets
validUpdate(body) ==
  /\ body.title.t = "undefined" \/ validTitle(body.title)
  /\ body.description.t = "undefined" \/ validDescription(body.description)
  /\ validTags(body.tags)

\* the document after findByIdAndUpdate(id, body): the paths the body carries
\* are set to their cast values, the others stay
updatedDocument(vlog, body) ==
  [state |-> "live",
   title |-> IF body.title.t = "undefined" THEN vlog.title ELSE trim(body.title.s),
   description |->
     IF body.description.t = "undefined" THEN vlog.description ELSE body.description.s,
   images |-> IF body.images.t = "undefined" THEN vlog.images ELSE castImages(body.images),
   author |-> IF body.author.t = "undefined" THEN vlog.author ELSE body.author.s,
   tags |-> IF body.tags.t = "undefined" THEN vlog.tags ELSE castTags(body.tags),
   aiGeneratedTags |->
     IF body.aiGeneratedTags.t = "undefined" THEN vlog.aiGeneratedTags
     ELSE castBoolean(body.aiGeneratedTags),
   views |-> vlog.views,
   userViews |-> vlog.userViews,
   likes |-> vlog.likes,
   dislikes |-> vlog.dislikes,
   version |-> vlog.version]

-----------------------------------------------------------------------------
(* The vlog controller (controllers/vlogController) *)

NaN == [t |-> "NaN"]

digitValue(c) == CHOOSE d \in 0..9 : SubSeq(Digits, d + 1, d + 1) = c

RECURSIVE parseDigits(_)
parseDigits(s) ==
  IF s = "" THEN 0
  ELSE 10 * parseDigits(SubSeq(s, 1, Len(s) - 1)) + digitValue(SubSeq(s, Len(s), Len(s)))

\* Number(v) for an environment entry: a string, or undefined when it is not set
Number(v) ==
  CASE v.t = "undefined" -> NaN
    [] v.t = "string" ->
         IF trim(v.s) = "" THEN Num(0)
         ELSE IF isNumber(trim(v.s)) THEN Num(parseDigits(trim(v.s)))
         ELSE NaN
    [] OTHER -> NaN

\* a >= b on numbers: false when either side is NaN
atLeast(a, b) == a.t = "number" /\ b.t = "number" /\ a.n >= b.n

\* the length property of a string or an array
length(v) ==
  CASE v.t = "string" -> Num(Len(v.s))
    [] v.t = "array" -> Num(Len(v.list))
    [] OTHER -> Undefined

\* req.files.map(...): the images made of the uploaded files
uploaded(files) == [i \in 1..files |-> "file" \o natToString(i)]

\* req.body.tags || []
tagsOrEmpty(v) == IF truthy(v) THEN v.list ELSE <<>>

role(user) == IF user = "root" THEN "admin" ELSE "user"

\* updateVlog and deleteVlog without the authorization check
mayChangeUnchecked(vlog, user) == TRUE

\* the authorization check of updateVlog and deleteVlog
mayChange(vlog, user) == vlog.author = user \/ role(user) = "admin"

\* createVlog tags without looking at the length of the description
createTaggingNoMinimum(body) ==
  /\ env.AI_TAGGING_ENABLED = Str("true")
  /\ truthy(body.description)

\* the condition under which createVlog calls generateTags
createTagging(body) ==
  /\ env.AI_TAGGING_ENABLED = Str("true")
  /\ truthy(body.description)
  /\ atLeast(length(body.description), Number(env.MIN_DESCRIPTION_LENGTH))

\* updateVlog tags only a description of the minimum length, as createVlog does
updateTaggingWithMinimum(body) ==
  /\ truthy(body.description)
  /\ env.AI_TAGGING_ENABLED = Str("true")
  /\ atLeast(length(body.description), Number(env.MIN_DESCRIPTION_LENGTH))

\* the condition under which updateVlog calls generateTags
updateTagging(body) ==
  /\ truthy(body.description)
  /\ env.AI_TAGGING_ENABLED = Str("true")

\* the call both handlers make: generateTags(req.body.description)
tagCall(body) ==
  [fn |-> "generateTags", description |-> body.description,
   category |-> Undefined, maxTags |-> Undefined]

tagResult(body) == generateTags(body.description, Undefined, Undefined)

\* the try block of createVlog, and its catch
createTagged(body) ==
  LET r == tagResult(body)
  IN IF r.kind = "returns"
     THEN [body EXCEPT !.tags = Arr(tagsOrEmpty(body.tags) \o r.value),
                       !.aiGeneratedTags = Bool(TRUE)]
     ELSE [body EXCEPT !.aiGeneratedTags = Bool(FALSE)]

\* the try block of updateVlog; its catch does nothing
updateTagged(body) ==
  LET r == tagResult(body)
  IN IF r.kind = "returns"
     THEN [body EXCEPT !.tags = Arr(tagsOrEmpty(body.tags) \o r.value),
                       !.aiGeneratedTags = Bool(TRUE)]
     ELSE body

\* req.body as createVlog hands it to Vlog.create
createBody(user, body, files) ==
  LET authored == [body EXCEPT !.author = Str(user)]
      withImages == IF files > 0
                    THEN [authored EXCEPT !.images = Arr(uploaded(files))]
                    ELSE authored
  IN IF createTagging(withImages) THEN createTagged(withImages) ELSE withImages

\* updatedImages of updateVlog
updatedImages(vlog, body, files) ==
  (IF truthy(body.images) THEN body.images.list ELSE vlog.images)
    \o (IF files > 0 THEN uploaded(files) ELSE <<>>)

\* req.body as updateVlog hands it to Vlog.findByIdAndUpdate
updateBody(vlog, body, files) ==
  LET withImages == [body EXCEPT !.images = Arr(updatedImages(vlog, body, files))]
  IN IF updateTagging(withImages) THEN updateTagged(withImages) ELSE withImages

-----------------------------------------------------------------------------
(* Requests to the vlog controller *)

\* ann and bob are users, root is an admin
Users == {"ann", "bob", "root"}

\* nobody is logged in: req.user is not set
NoUser == "nobody"

\* the documents of the users as User.create leaves them: nobody follows
\* anybody, no refresh token is stored, the account is active
NewUser ==
  [following |-> <<>>, followers |-> <<>>, version |-> 0,
   refreshToken |-> Undefined, isActive |-> Bool(TRUE)]

NewUsers == [user \in Users |-> NewUser]

\* descriptions of 0, 8 and 18 characters, and no description
BodyDescriptions == {Undefined, Str(""), Str("pc games"), Str("Travel vlog, games")}

BodyTags == {Undefined, Arr(<<"Fun ">>)}

BodyFlags == {Undefined, Bool(TRUE), Bool(FALSE)}

\* bodies that differ in what the tagging reads and writes
TaggingBodies ==
  [title : {Str("Day one")}, description : BodyDescriptions, tags : BodyTags,
   aiGeneratedTags : BodyFlags, images : {Undefined}, author : {Undefined}]

\* bodies that differ in the other fields
OtherBodies ==
  [title : {Undefined, Str("Day two ")},
   description : {Undefined, Str("Travel vlog, games")},
   tags : {Undefined}, aiGeneratedTags : {Undefined},
   images : {Undefined, Arr(<<>>), Arr(<<"p1">>)}, author : {Undefined, Str("bob")}]

\* a request: who sends it, its body, and the number of files it uploads.
\* ann sends every body without files; everybody sends the plain bodies with
\* and without files.
Requests ==
  [user : {"ann"}, body : TaggingBodies \cup OtherBodies, files : {0}]
    \cup [user : Users,
          body : {b \in TaggingBodies : b.tags = Undefined /\ b.aiGeneratedTags = Undefined},
          files : 0..MaxFiles]

\* the flag set to 'true', to 'false' or not set; the minimum at, above and
\* below the length of the longest description, or not set
Environments ==
  { [AI_TAGGING_ENABLED |-> Undefined, MIN_DESCRIPTION_LENGTH |-> Str("5")],
    [AI_TAGGING_ENABLED |-> Str("false"), MIN_DESCRIPTION_LENGTH |-> Str("18")],
    [AI_TAGGING_ENABLED |-> Str("true"), MIN_DESCRIPTION_LENGTH |-> Undefined],
    [AI_TAGGING_ENABLED |-> Str("true"), MIN_DESCRIPTION_LENGTH |-> Str("5")],
    [AI_TAGGING_ENABLED |-> Str("true"), MIN_DESCRIPTION_LENGTH |-> Str("18")],
    [AI_TAGGING_ENABLED |-> Str("true"), MIN_DESCRIPTION_LENGTH |-> Str("19")] }

NoRequest == [op |-> "none", n |-> 0]

-----------------------------------------------------------------------------
(* The auth middleware (middleware/auth) *)

\* String.prototype.startsWith
startsWith(s, prefix) == Len(s) >= Len(prefix) /\ SubSeq(s, 1, Len(prefix)) = prefix

\* String.prototype.split(sep) for a separator of one character
RECURSIVE splitOn(_, _, _)
splitOn(s, sep, cur) ==
  IF s = "" THEN <<cur>>
  ELSE IF SubSeq(s, 1, 1) = sep THEN <<cur>> \o splitOn(Tail(s), sep, "")
  ELSE splitOn(Tail(s), sep, cur \o SubSeq(s, 1, 1))

\* xs[i] of an array of strings, counted from 0: undefined past the end
element(xs, i) == IF i + 1 <= Len(xs) THEN Str(xs[i + 1]) ELSE Undefined

\* the tokens signed with JWT_SECRET that are not expired, and the id each
\* carries; zed has no account
SignedTokens == {"ann.jwt", "bob.jwt", "root.jwt", "zed.jwt"}

\* jwt.verify(token, process.env.JWT_SECRET)
jwtVerify(token) ==
  IF token \in SignedTokens
  THEN Returns([id |-> SubSeq(token, 1, Len(token) - 4)])
  ELSE Throws

\* the token a request presents: the second word of a Bearer Authorization
\* header, else the token cookie
tokenOf(h) ==
  IF truthy(h.authorization) /\ startsWith(h.authorization.s, "Bearer")
  THEN element(splitOn(h.authorization.s, " ", ""), 1)
  ELSE IF truthy(h.cookie) THEN h.cookie
  ELSE Undefined

\* the outcome of a middleware: the request goes on to the next handler with
\* req.user set, or it is answered with a status
Goes(user) == [status |-> "next", user |-> user]
Answers(status) == [status |-> status]

\* protect that takes the id out of the token without verifying it
protectUnverified(h) ==
  LET token == tokenOf(h)
  IN IF ~truthy(token) THEN Answers("401")
     ELSE IF Len(token.s) > 4 /\ SubSeq(token.s, 1, Len(token.s) - 4) \in Users
          THEN Goes(SubSeq(token.s, 1, Len(token.s) - 4))
          ELSE Answers("401")

\* protect
protect(h) ==
  LET token == tokenOf(h)
  IN IF ~truthy(token) THEN Answers("401")
     ELSE LET decoded == jwtVerify(token.s)
          IN IF decoded.kind = "throws" THEN Answers("401")
             ELSE IF decoded.value.id \notin Users THEN Answers("401")
             ELSE Goes(decoded.value.id)

\* optionalAuth
optionalAuth(h) ==
  LET token == tokenOf(h)
  IN IF ~truthy(token) THEN Goes(NoUser)
     ELSE LET decoded == jwtVerify(token.s)
          IN IF decoded.kind = "throws" THEN Goes(NoUser)
             ELSE IF decoded.value.id \notin Users THEN Goes(NoUser)
             ELSE IF ~truthy(users[decoded.value.id].isActive) THEN Goes(NoUser)
             ELSE Goes(decoded.value.id)

-----------------------------------------------------------------------------
(* The service as a state machine: a caller calls one of the four exported *)
(* functions and takes the result.                                         *)

Init ==
  /\ tableWrites = <<>>
  /\ call = NoCall
  /\ ret = NoCall
  /\ probe = NoProbe
  /\ env = [AI_TAGGING_ENABLED |-> Undefined, MIN_DESCRIPTION_LENGTH |-> Undefined]
  /\ vlogs = [id \in VlogIds |-> Unused]
  /\ last = NoRequest
  /\ bookmarks = [user \in Users |-> <<>>]
  /\ pending = {}
  /\ users = NewUsers
  /\ clock = 0

\* CallGenerateTags where the call also appends its frequent words to COMMON_TAGS
CallGenerateTagsMutating ==
  /\ call = NoCall
  /\ \E d \in TagDescriptions, c \in Categories, m \in Counts :
       /\ call' = [fn |-> "generateTags", description |-> d, category |-> c, maxTags |-> m]
       /\ ret' = generateTags(d, c, m)
       /\ tableWrites' =
            IF d.t = "string" /\ Len(tableWrites) < 2
            THEN LET ws == sortedWords(filteredTokens(cleanText(d.s)))
                 IN tableWrites \o [i \in 1..Len(ws) |-> [table |-> "COMMON_TAGS", push |-> ws[i]]]
            ELSE tableWrites
  /\ UNCHANGED <<probe, appVars>>

CallGenerateTags ==
  /\ call = NoCall
  /\ \E d \in TagDescriptions, c \in Categories, m \in Counts :
       /\ call' = [fn |-> "generateTags", description |-> d, category |-> c, maxTags |-> m]
       /\ ret' = generateTags(d, c, m)
  /\ UNCHANGED <<tableWrites, probe, appVars>>

CallSuggestCategories ==
  /\ call = NoCall
  /\ \E d \in TagDescriptions, ts \in TagLists :
       /\ call' = [fn |-> "suggestCategories", description |-> d, tags |-> ts]
       /\ ret' = suggestCategories(d, ts)
  /\ UNCHANGED <<tableWrites, probe, appVars>>

CallAnalyzeSentiment ==
  /\ call = NoCall
  /\ \E d \in SentimentDescriptions, build \in NaturalBuilds :
       /\ call' = [fn |-> "analyzeSentiment", description |-> d]
       /\ ret' = analyzeSentiment(d, build)
  /\ UNCHANGED <<tableWrites, probe, appVars>>

CallExtractKeyPhrases ==
  /\ call = NoCall
  /\ \E d \in PhraseDescriptions, m \in Counts :
       /\ call' = [fn |-> "extractKeyPhrases", description |-> d, maxPhrases |-> m]
       /\ ret' = extractKeyPhrases(d, m)
  /\ UNCHANGED <<tableWrites, probe, appVars>>

\* the caller takes the result of one of the probe calls and keeps it
Remember ==
  /\ call \in ProbeCalls
  /\ probe = NoProbe
  /\ probe' = [set |-> TRUE, call |-> call, ret |-> ret]
  /\ call' = NoCall
  /\ ret' = NoCall
  /\ UNCHANGED <<tableWrites, appVars>>

\* the caller has taken the result
Return ==
  /\ call # NoCall
  /\ call' = NoCall
  /\ ret' = NoCall
  /\ UNCHANGED <<tableWrites, probe, appVars>>

Next ==
  \/ CallGenerateTags
  \/ CallSuggestCategories
  \/ CallAnalyzeSentiment
  \/ CallExtractKeyPhrases
  \/ Remember
  \/ Return

Spec == Init /\ [][Next]_vars

-----------------------------------------------------------------------------
(* The vlog controller as a state machine: each action is one request,     *)
(* handled from the first line of its handler to the response.  call and   *)
(* ret hold the generateTags call the handler made, if it made one.        *)

InitVlog ==
  /\ tableWrites = <<>>
  /\ call = NoCall
  /\ ret = NoCall
  /\ probe = NoProbe
  /\ env \in Environments
  /\ vlogs = [id \in VlogIds |-> Unused]
  /\ last = NoRequest
  /\ bookmarks = [user \in Users |-> <<>>]
  /\ pending = {}
  /\ users = NewUsers
  /\ clock = 0

\* the _id a request body carries, undefined when it has none
idOf(body) == IF "_id" \in DOMAIN body THEN body._id ELSE Undefined

\* the id a new ObjectId() gets: one that was never used
isNextId(id) ==
  /\ vlogs[id] = Unused
  /\ \A other \in VlogIds : other < id => vlogs[other] # Unused

\* createVlog, from its first line to the response.  The document is stored
\* under the _id of the body if it has one (unless a document has that id),
\* under a new id otherwise.
createVlog(req, id) ==
  LET sent == createBody(req.user, req.body, req.files)
      tagging == createTagging(req.body)
      given == idOf(req.body)
      stored == validDocument(sent) /\ ~found(vlogs[id])
  IN /\ IF given = Undefined THEN isNextId(id) ELSE id = given.n
     /\ call' = IF tagging THEN tagCall(req.body) ELSE NoCall
     /\ ret' = IF tagging THEN tagResult(req.body) ELSE NoCall
     /\ vlogs' = IF stored THEN [vlogs EXCEPT ![id] = newDocument(sent)] ELSE vlogs
     /\ last' = req @@ [op |-> "createVlog", n |-> last.n + 1, id |-> id,
                        before |-> Unused, sent |-> sent,
                        status |-> IF stored THEN "201" ELSE "error"]
     /\ UNCHANGED <<tableWrites, probe, env, bookmarks, pending, users, clock>>

\* updateChecks that refuses a list of 10 images: >= 10 for > 10
updateChecksOffByOne(vlog, req) ==
  LET allowed == found(vlog) /\ mayChange(vlog, req.user)
      images == updatedImages(vlog, req.body, req.files)
      counted == allowed /\ Len(images) < MaxImages /\ Len(images) # 0
  IN [status |-> CASE ~found(vlog) -> "404"
                   [] found(vlog) /\ ~allowed -> "403"
                   [] allowed /\ ~counted -> "400"
                   [] OTHER -> "ok",
      tagging |-> counted /\ updateTagging(req.body),
      sent |-> IF counted THEN updateBody(vlog, req.body, req.files) ELSE req.body]

\* what updateVlog decides from the document it read, before it writes:
\* the status of an early return, or "ok" and the update to apply
updateChecks(vlog, req) ==
  LET allowed == found(vlog) /\ mayChange(vlog, req.user)
      images == updatedImages(vlog, req.body, req.files)
      counted == allowed /\ Len(images) <= MaxImages /\ Len(images) # 0
  IN [status |-> CASE ~found(vlog) -> "404"
                   [] found(vlog) /\ ~allowed -> "403"
                   [] allowed /\ ~counted -> "400"
                   [] OTHER -> "ok",
      tagging |-> counted /\ updateTagging(req.body),
      sent |-> IF counted THEN updateBody(vlog, req.body, req.files) ELSE req.body]

\* findByIdAndUpdate without {new: true}: it returns the document as it was
\* before the update
findByIdAndUpdateOld(vlog, id, body) ==
  IF ~found(vlog) THEN [status |-> "200", document |-> vlog, data |-> Null]
  ELSE IF validUpdate(body) /\ (idOf(body) = Undefined \/ idOf(body).n = id)
  THEN [status |-> "200", document |-> updatedDocument(vlog, body), data |-> vlog]
  ELSE [status |-> "error", document |-> vlog, data |-> Null]

\* Vlog.findByIdAndUpdate(id, body, {new: true, runValidators: true}) and the
\* response that follows, where vlog is what the store holds under id at that
\* moment: the status, the document then stored, and the data of the response.
\* An update that fails validation, or that would change _id, is an error
\* and writes nothing; when there is no document the data is null.
findByIdAndUpdate(vlog, id, body) ==
  IF ~found(vlog) THEN [status |-> "200", document |-> vlog, data |-> Null]
  ELSE IF validUpdate(body) /\ (idOf(body) = Undefined \/ idOf(body).n = id)
  THEN [status |-> "200", document |-> updatedDocument(vlog, body),
        data |-> updatedDocument(vlog, body)]
  ELSE [status |-> "error", document |-> vlog, data |-> Null]

\* vlogSchema.methods.recordUniqueView(userId) on a loaded copy of a vlog: the
\* copy afterwards, and whether the method saved it
recordUniqueView(vlog, userId) ==
  IF ~truthy(userId) THEN [vlog |-> vlog, saves |-> FALSE]
  ELSE IF inList(vlog.userViews, userId.s) THEN [vlog |-> vlog, saves |-> FALSE]
  ELSE [vlog |-> [vlog EXCEPT !.userViews = Append(@, userId.s), !.views = @ + 1],
        saves |-> TRUE]

\* updateVlog, from its first line to the response
updateVlog(req, id) ==
  LET vlog == vlogs[id]
      checks == updateChecks(vlog, req)
      result == findByIdAndUpdate(vlog, id, checks.sent)
  IN /\ call' = IF checks.tagging THEN tagCall(req.body) ELSE NoCall
     /\ ret' = IF checks.tagging THEN tagResult(req.body) ELSE NoCall
     /\ vlogs' = IF checks.status = "ok" THEN [vlogs EXCEPT ![id] = result.document]
                 ELSE vlogs
     /\ last' = req @@ [op |-> "updateVlog", n |-> last.n + 1, id |-> id,
                        before |-> vlog, sent |-> checks.sent,
                        status |-> IF checks.status # "ok" THEN checks.status
                                   ELSE result.status]
     /\ UNCHANGED <<tableWrites, probe, env, bookmarks, pending, users, clock>>

\* the deleteImage calls of deleteVlog for a document: one for each image, in order
deleteAttempts(vlog) ==
  IF found(vlog) /\ Len(vlog.images) > 0 THEN vlog.images ELSE <<>>

\* deleteVlog without the try/catch around deleteImage: the first call that
\* throws ends the handler with an error, before vlog.deleteOne()
deleteVlogUncaught(req, id, failing) ==
  LET vlog == vlogs[id]
      allowed == found(vlog) /\ mayChange(vlog, req.user)
      calls == deleteAttempts(vlog)
      thrown == allowed /\ failing # {}
      firstFailure == CHOOSE i \in failing : \A j \in failing : i <= j
  IN /\ failing \subseteq (IF allowed THEN 1..Len(calls) ELSE {})
     /\ vlogs' = IF allowed /\ ~thrown THEN [vlogs EXCEPT ![id] = Deleted] ELSE vlogs
     /\ last' = req @@ [op |-> "deleteVlog", n |-> last.n + 1, id |-> id,
                        before |-> vlog,
                        attempts |-> IF ~allowed THEN <<>>
                                     ELSE IF thrown THEN SubSeq(calls, 1, firstFailure)
                                     ELSE calls,
                        failed |-> failing,
                        status |-> CASE ~found(vlog) -> "404"
                                     [] found(vlog) /\ ~allowed -> "403"
                                     [] thrown -> "error"
                                     [] OTHER -> "200"]
     /\ call' = NoCall
     /\ ret' = NoCall
     /\ UNCHANGED <<tableWrites, probe, env, bookmarks, pending, users, clock>>

\* deleteVlog, from its first line to the response; failing is the set of
\* positions in the image list at which deleteImage throws
deleteVlog(req, id, failing) ==
  LET vlog == vlogs[id]
      allowed == found(vlog) /\ mayChange(vlog, req.user)
  IN /\ failing \subseteq (IF allowed THEN 1..Len(deleteAttempts(vlog)) ELSE {})
     /\ vlogs' = IF allowed THEN [vlogs EXCEPT ![id] = Deleted] ELSE vlogs
     /\ last' = req @@ [op |-> "deleteVlog", n |-> last.n + 1, id |-> id,
                        before |-> vlog,
                        attempts |-> IF allowed THEN deleteAttempts(vlog) ELSE <<>>,
                        failed |-> failing,
                        status |-> CASE ~found(vlog) -> "404"
                                     [] found(vlog) /\ ~allowed -> "403"
                                     [] OTHER -> "200"]
     /\ call' = NoCall
     /\ ret' = NoCall
     /\ UNCHANGED <<tableWrites, probe, env, bookmarks, pending, users, clock>>

\* vlog.recordUniqueView(userId) for a logged-in user, vlog.incrementViews()
\* for an anonymous one: the document that is saved
viewed(vlog, user) ==
  IF user = NoUser THEN [vlog EXCEPT !.views = @ + 1]
  ELSE recordUniqueView(vlog, Str(user)).vlog

\* getVlog, from its first line to the response (every vlog is public: no
\* request of the model sets isPublic)
getVlog(req, id) ==
  LET vlog == vlogs[id]
  IN /\ vlogs' = IF found(vlog) THEN [vlogs EXCEPT ![id] = viewed(vlog, req.user)] ELSE vlogs
     /\ last' = req @@ [op |-> "getVlog", n |-> last.n + 1, id |-> id, before |-> vlog,
                        status |-> IF found(vlog) THEN "200" ELSE "404"]
     /\ call' = NoCall
     /\ ret' = NoCall
     /\ UNCHANGED <<tableWrites, probe, env, bookmarks, pending, users, clock>>

\* POST /api/vlogs
CreateVlog ==
  /\ last.n < MaxRequests
  /\ \E req \in Requests, id \in VlogIds : createVlog(req, id)

\* PUT /api/vlogs/:id
UpdateVlog ==
  /\ last.n < MaxRequests
  /\ \E req \in Requests, id \in VlogIds : updateVlog(req, id)

NextVlog ==
  \/ CreateVlog
  \/ UpdateVlog

SpecVlog == InitVlog /\ [][NextVlog]_vars

-----------------------------------------------------------------------------
(* The vlog routes (routes/vlogs) as a state machine: each action is one   *)
(* HTTP request, taken through the middleware of its route and then, if    *)
(* the middleware lets it through, through its handler.                    *)

\* what a request presents: an Authorization header and a token cookie
Credentials ==
  { [authorization |-> Undefined, cookie |-> Undefined],
    [authorization |-> Str(""), cookie |-> Undefined],
    [authorization |-> Str("Bearer ann.jwt"), cookie |-> Undefined],
    [authorization |-> Str("Bearer bob.jwt"), cookie |-> Undefined],
    [authorization |-> Str("Bearer root.jwt"), cookie |-> Undefined],
    [authorization |-> Str("Bearer zed.jwt"), cookie |-> Undefined],
    [authorization |-> Str("Bearer "), cookie |-> Undefined],
    [authorization |-> Str("Bearer ann.exp"), cookie |-> Undefined],
    [authorization |-> Str("Basic ann.jwt"), cookie |-> Undefined],
    [authorization |-> Undefined, cookie |-> Str("ann.jwt")],
    [authorization |-> Undefined, cookie |-> Str("ann.exp")],
    [authorization |-> Str("Basic ann.jwt"), cookie |-> Str("ann.jwt")],
    [authorization |-> Str("Bearer "), cookie |-> Str("ann.jwt")] }

PlainBody ==
  [title |-> Str("Day one"), description |-> Str("Travel vlog, games"), tags |-> Undefined,
   aiGeneratedTags |-> Undefined, images |-> Undefined, author |-> Undefined]

\* a list of n images
imageList(n) == [i \in 1..n |-> "p" \o natToString(i)]

\* bodies that differ in title, images and _id
AccessBodies ==
  { PlainBody,
    [PlainBody EXCEPT !.title = Str("Day two "), !.description = Undefined],
    [PlainBody EXCEPT !.images = Arr(<<>>)],
    [PlainBody EXCEPT !.images = Arr(imageList(MaxImages))],
    PlainBody @@ [_id |-> Num(1)] }

\* requests with a body: ann's token with every body, with and without
\* files, and every credential with the plain body
BodyRequests ==
  { [authorization |-> Str("Bearer ann.jwt"), cookie |-> Undefined,
     body |-> b, files |-> f] : b \in AccessBodies, f \in 0..MaxFiles }
    \cup { c @@ [body |-> PlainBody, files |-> 0] : c \in Credentials }

InitAccess ==
  /\ tableWrites = <<>>
  /\ call = NoCall
  /\ ret = NoCall
  /\ probe = NoProbe
  /\ env = [AI_TAGGING_ENABLED |-> Undefined, MIN_DESCRIPTION_LENGTH |-> Undefined]
  /\ vlogs = [id \in VlogIds |-> Unused]
  /\ last = NoRequest
  /\ bookmarks = [user \in Users |-> <<>>]
  /\ pending = {}
  /\ users = NewUsers
  /\ clock = 0

\* a request that protect answers with 401: no handler runs
unauthorized(h, op, id) ==
  /\ last' = h @@ [op |-> op, n |-> last.n + 1, id |-> id, user |-> NoUser,
                   before |-> vlogs[id], status |-> "401"]
  /\ call' = NoCall
  /\ ret' = NoCall
  /\ UNCHANGED <<tableWrites, probe, env, vlogs, bookmarks, pending, users, clock>>

\* router.post('/', protect, uploadMultiple('images', 10), createVlogValidation, createVlog)
PostVlog ==
  /\ last.n < MaxSteps
  /\ \E h \in BodyRequests, id \in VlogIds :
       LET who == protect(h)
       IN IF who.status = "401" THEN unauthorized(h, "createVlog", id)
          ELSE createVlog(h @@ [user |-> who.user], id)

\* router.put('/:id', protect, uploadMultiple('images', 10), updateVlogValidation, updateVlog)
PutVlog ==
  /\ last.n < MaxSteps
  /\ \E h \in BodyRequests, id \in VlogIds :
       LET who == protect(h)
       IN IF who.status = "401" THEN unauthorized(h, "updateVlog", id)
          ELSE updateVlog(h @@ [user |-> who.user], id)

\* router.delete('/:id', protect, deleteVlog)
DeleteVlog ==
  /\ last.n < MaxSteps
  /\ \E h \in Credentials, id \in VlogIds :
       LET who == protect(h)
       IN IF who.status = "401" THEN unauthorized(h, "deleteVlog", id)
          ELSE \E failing \in SUBSET (1..Len(deleteAttempts(vlogs[id]))) :
                 deleteVlog(h @@ [user |-> who.user], id, failing)

\* router.get('/:id', optionalAuth, getVlog)
GetVlog ==
  /\ last.n < MaxSteps
  /\ \E h \in Credentials, id \in VlogIds :
       getVlog(h @@ [user |-> optionalAuth(h).user], id)

NextAccess ==
  \/ PostVlog
  \/ PutVlog
  \/ DeleteVlog
  \/ GetVlog

SpecAccess == InitAccess /\ [][NextAccess]_vars

-----------------------------------------------------------------------------
(* Overlapping requests.  A handler runs up to an await, other handlers    *)
(* run, and it goes on from there: each action is the part of a handler    *)
(* between two awaits that touch the database.  pending holds every        *)
(* request that has begun, with what it read and, once it is answered, its *)
(* response.                                                               *)

\* the status of a request that is not answered yet
InFlight == "in flight"

Slots == 1..MaxOverlap

\* the place in pending of the next request to begin
freeSlot(slot) ==
  /\ \A p \in pending : p.slot # slot
  /\ \A other \in Slots : other < slot => \E p \in pending : p.slot = other

\* update bodies: two with every field and different titles, one without title
RaceBodies ==
  { [PlainBody EXCEPT !.title = Str("Day two ")],
    [PlainBody EXCEPT !.title = Str("Day 3"), !.description = Str("pc games, all day")],
    [PlainBody EXCEPT !.title = Undefined, !.description = Str("Mostly games")] }

RaceRequests ==
  { [user |-> u, body |-> b, files |-> f] :
      u \in {"ann", "bob"}, b \in RaceBodies, f \in 0..MaxFiles }

InitRace ==
  /\ tableWrites = <<>>
  /\ call = NoCall
  /\ ret = NoCall
  /\ probe = NoProbe
  /\ env = [AI_TAGGING_ENABLED |-> Undefined, MIN_DESCRIPTION_LENGTH |-> Undefined]
  /\ vlogs = [id \in VlogIds |-> Unused]
  /\ last = NoRequest
  /\ bookmarks = [user \in Users |-> <<>>]
  /\ pending = {}
  /\ users = NewUsers
  /\ clock = 0

\* updateVlog up to findByIdAndUpdate: findById, the checks and the tagging
\* call.  An early return answers the request here.
updateVlogRead(req, id, slot) ==
  LET vlog == vlogs[id]
      checks == updateChecks(vlog, req)
  IN /\ freeSlot(slot)
     /\ call' = IF checks.tagging THEN tagCall(req.body) ELSE NoCall
     /\ ret' = IF checks.tagging THEN tagResult(req.body) ELSE NoCall
     /\ pending' = pending \cup
          { [slot |-> slot, op |-> "updateVlog", user |-> req.user, body |-> req.body,
             files |-> req.files, id |-> id, read |-> vlog, sent |-> checks.sent,
             status |-> IF checks.status = "ok" THEN InFlight ELSE checks.status,
             data |-> Null] }
     /\ UNCHANGED <<tableWrites, probe, env, vlogs, last, bookmarks, users, clock>>

\* updateVlog from findByIdAndUpdate to the response
updateVlogWrite(p) ==
  LET result == findByIdAndUpdate(vlogs[p.id], p.id, p.sent)
  IN /\ p.op = "updateVlog"
     /\ p.status = InFlight
     /\ vlogs' = [vlogs EXCEPT ![p.id] = result.document]
     /\ pending' = (pending \ {p})
                     \cup {[p EXCEPT !.status = result.status, !.data = result.data]}
     /\ UNCHANGED <<tableWrites, call, ret, probe, env, last, bookmarks, users, clock>>

\* POST /api/vlogs, with one image file
CreateWithImage ==
  /\ last.n < MaxRequests
  /\ \E user \in {"ann", "bob"}, id \in VlogIds :
       createVlog([user |-> user, body |-> PlainBody, files |-> 1], id)

\* PUT /api/vlogs/:id begins
BeginUpdate ==
  \E req \in RaceRequests, id \in VlogIds, slot \in Slots : updateVlogRead(req, id, slot)

\* a PUT /api/vlogs/:id that has begun goes on
EndUpdate ==
  \E p \in pending : updateVlogWrite(p)

NextRace ==
  \/ CreateWithImage
  \/ BeginUpdate
  \/ EndUpdate

SpecRace == InitRace /\ [][NextRace]_vars

-----------------------------------------------------------------------------
(* The bookmark handlers of the user controller (controllers/userController), *)
(* behind router.use(protect): req.user is a user that exists.  An entry of *)
(* a bookmarks array is an ObjectId; req.params.vlogId is a string.         *)

TargetIds == 1..MaxTargets

\* ObjectId.prototype.toString: the id in lowercase hexadecimal
toHexString(id) == "a" \o natToString(id)

\* the same hexadecimal digits in upper case
upperHexString(id) == "A" \o natToString(id)

\* what Mongoose answers to a string that is no ObjectId
CastError == 0

\* the ObjectId a string is cast to: hexadecimal digits of either case
castObjectId(s) ==
  IF \E id \in TargetIds : toHexString(id) = toLowerCase(s)
  THEN CHOOSE id \in TargetIds : toHexString(id) = toLowerCase(s)
  ELSE CastError

\* user.bookmarks.includes(value): value == element for some element, and ==
\* between a string and an ObjectId compares the string with toString()
arrayIncludes(list, value) == \E i \in 1..Len(list) : toHexString(list[i]) = value

\* user.bookmarks.filter(id => id.toString() !== vlogId)
withoutBookmark(list, vlogId) == SelectSeq(list, LAMBDA id : toHexString(id) # vlogId)

\* save() after push, which overwrites the stored array with the array read
savePushWhole(stored, list, id) == Append(list, id)

\* user.bookmarks.push(vlogId); user.save(): the id the string is cast to is
\* appended to the array as it is stored at the time of the save ($push)
savePush(stored, list, id) == Append(stored, id)

\* the vlogId parameters tried: every id in both cases, and a string that is
\* no ObjectId
VlogIdParams ==
  {toHexString(id) : id \in TargetIds} \cup {upperHexString(id) : id \in TargetIds}
    \cup {"zz"}

BookmarkRequests == {[user |-> u, vlogId |-> v] : u \in {"ann", "bob"}, v \in VlogIdParams}

\* a vlog that is stored
StoredVlog == newDocument([PlainBody EXCEPT !.author = Str("bob"), !.images = Arr(<<"p1">>)])

\* the users have no bookmarks; each id is the id of a vlog or of none
InitBookmarks ==
  /\ tableWrites = <<>>
  /\ call = NoCall
  /\ ret = NoCall
  /\ probe = NoProbe
  /\ env = [AI_TAGGING_ENABLED |-> Undefined, MIN_DESCRIPTION_LENGTH |-> Undefined]
  /\ vlogs \in [TargetIds -> {Unused, StoredVlog}]
  /\ last = NoRequest
  /\ bookmarks = [user \in Users |-> <<>>]
  /\ pending = {}
  /\ users = NewUsers
  /\ clock = 0

\* what addBookmark decides from what it read: the status of the response,
\* and whether it pushes and saves
addChecks(list, req) ==
  LET id == castObjectId(req.vlogId)
      status == IF id = CastError THEN "error"
                ELSE IF ~found(vlogs[id]) THEN "404"
                ELSE "200"
  IN [id |-> id, status |-> status,
      saves |-> status = "200" /\ ~arrayIncludes(list, req.vlogId)]

\* addBookmark, from its first line to the response
addBookmark(req) ==
  LET list == bookmarks[req.user]
      checks == addChecks(list, req)
  IN /\ bookmarks' = IF checks.saves
                     THEN [bookmarks EXCEPT ![req.user] = savePush(list, list, checks.id)]
                     ELSE bookmarks
     /\ last' = req @@ [op |-> "addBookmark", n |-> last.n + 1, before |-> list,
                        status |-> checks.status, bookmarked |-> checks.status = "200"]
     /\ UNCHANGED <<tableWrites, call, ret, probe, env, vlogs, pending, users, clock>>

\* removeBookmark, from its first line to the response
removeBookmark(req) ==
  LET list == bookmarks[req.user]
  IN /\ bookmarks' = [bookmarks EXCEPT ![req.user] = withoutBookmark(list, req.vlogId)]
     /\ last' = req @@ [op |-> "removeBookmark", n |-> last.n + 1, before |-> list,
                        status |-> "200", bookmarked |-> FALSE]
     /\ UNCHANGED <<tableWrites, call, ret, probe, env, vlogs, pending, users, clock>>

\* POST /api/users/bookmarks/:vlogId
AddBookmark ==
  /\ last.n < MaxBookmarkSteps
  /\ \E req \in BookmarkRequests : addBookmark(req)

\* DELETE /api/users/bookmarks/:vlogId
RemoveBookmark ==
  /\ last.n < MaxBookmarkSteps
  /\ \E req \in BookmarkRequests : removeBookmark(req)

NextBookmarks ==
  \/ AddBookmark
  \/ RemoveBookmark

SpecBookmarks == InitBookmarks /\ [][NextBookmarks]_vars

\* addBookmark up to save(): the two findById, the checks and the push.  A
\* request that saves nothing is answered here.
addBookmarkRead(req, slot) ==
  LET list == bookmarks[req.user]
      checks == addChecks(list, req)
  IN /\ freeSlot(slot)
     /\ pending' = pending \cup
          { [slot |-> slot, op |-> "addBookmark", user |-> req.user,
             vlogId |-> req.vlogId, id |-> checks.id, read |-> list,
             status |-> IF checks.saves THEN InFlight ELSE checks.status] }
     /\ UNCHANGED <<tableWrites, call, ret, probe, env, vlogs, last, bookmarks, users, clock>>

\* addBookmark from save() to the response
addBookmarkSave(p) ==
  /\ p.op = "addBookmark"
  /\ p.status = InFlight
  /\ bookmarks' = [bookmarks EXCEPT ![p.user] = savePush(bookmarks[p.user], p.read, p.id)]
  /\ pending' = (pending \ {p}) \cup {[p EXCEPT !.status = "200"]}
  /\ UNCHANGED <<tableWrites, call, ret, probe, env, vlogs, last, users, clock>>

\* POST /api/users/bookmarks/:vlogId begins
BeginAddBookmark ==
  \E req \in BookmarkRequests, slot \in Slots : addBookmarkRead(req, slot)

\* a POST /api/users/bookmarks/:vlogId that has begun goes on
EndAddBookmark ==
  \E p \in pending : addBookmarkSave(p)

NextBookmarkRace ==
  \/ BeginAddBookmark
  \/ EndAddBookmark

SpecBookmarkRace == InitBookmarks /\ [][NextBookmarkRace]_vars

-----------------------------------------------------------------------------
(* followUser and unfollowUser of the user controller, behind               *)
(* router.use(protect).  A user's id is the user's name here, which is also *)
(* the id's toString(); an entry of following or followers is an id;        *)
(* req.params.userId is a string.                                           *)

\* the strings an ObjectId can be cast from: hexadecimal digits of either case
isObjectId(s) ==
  Chars(s) \subseteq (Chars(LowerCase) \cup Chars(UpperCase) \cup Chars(Digits))

\* the id a string is cast to, as its toString()
castUserId(s) == toLowerCase(s)

\* list.includes(value) on an array of ObjectIds with a string: value == entry
\* compares the string with the entry's toString()
idsInclude(list, value) == \E i \in 1..Len(list) : list[i] = value

\* list.filter(id => id.toString() !== value)
idsWithout(list, value) == SelectSeq(list, LAMBDA id : id # value)

\* what a handler did to one array of its copy of a document: nothing, a
\* push, or an assignment of a new array
NoEdit == [kind |-> "none"]
Pushed(id) == [kind |-> "push", id |-> id]
Assigned(list) == [kind |-> "set", list |-> list]

applyEdit(list, edit) ==
  IF edit.kind = "push" THEN Append(list, edit.id)
  ELSE IF edit.kind = "set" THEN edit.list
  ELSE list

\* copy.save() of a user document: a push is sent as $push and appended to
\* the array as stored; an assigned array is sent as $set together with the
\* condition that the stored version is the version the copy was loaded
\* with, and the save fails with a VersionError when it is not.  Every save
\* that changes an array increments the version.
saveUser(stored, copy) ==
  IF "set" \in {copy.following.kind, copy.followers.kind} /\ stored.version # copy.version
  THEN [ok |-> FALSE, doc |-> stored]
  ELSE [ok |-> TRUE,
        doc |-> [stored EXCEPT !.following = applyEdit(@, copy.following),
                               !.followers = applyEdit(@, copy.followers),
                               !.version = @ + 1]]

\* one save() of a handler against the users collection us; a save can also
\* fail for a reason of its own, and then it writes nothing
afterSave(us, copy, fails) ==
  IF fails THEN [ok |-> FALSE, users |-> us]
  ELSE [ok |-> saveUser(us[copy.id], copy).ok,
        users |-> [us EXCEPT ![copy.id] = saveUser(us[copy.id], copy).doc]]

\* the two copies a handler loaded and edited
copiesOf(us, follower, target, followerEdit, targetEdit) ==
  [follower |-> [id |-> follower, version |-> us[follower].version,
                 following |-> followerEdit, followers |-> NoEdit],
   target |-> [id |-> target, version |-> us[target].version,
               following |-> NoEdit, followers |-> targetEdit]]

NoCopies == [follower |-> NoEdit, target |-> NoEdit]

\* followUser up to the saves: the status of an early return, or "ok" and
\* the two edited copies
followPlan(us, req) ==
  LET target == castUserId(req.userId)
  IN IF req.userId = req.user THEN [status |-> "400", copies |-> NoCopies]
     ELSE IF ~isObjectId(req.userId) THEN [status |-> "error", copies |-> NoCopies]
     ELSE IF target \notin Users THEN [status |-> "404", copies |-> NoCopies]
     ELSE IF idsInclude(us[req.user].following, req.userId)
     THEN [status |-> "400", copies |-> NoCopies]
     ELSE [status |-> "ok",
           copies |-> copiesOf(us, req.user, target, Pushed(target), Pushed(req.user))]

\* unfollowUser up to the saves
unfollowPlan(us, req) ==
  LET target == castUserId(req.userId)
  IN IF ~isObjectId(req.userId) THEN [status |-> "error", copies |-> NoCopies]
     ELSE IF target \notin Users THEN [status |-> "404", copies |-> NoCopies]
     ELSE IF ~idsInclude(us[req.user].following, req.userId)
     THEN [status |-> "400", copies |-> NoCopies]
     ELSE [status |-> "ok",
           copies |-> copiesOf(us, req.user, target,
                               Assigned(idsWithout(us[req.user].following, req.userId)),
                               Assigned(idsWithout(us[target].followers, req.user)))]

\* the orders in which the two saves of Promise.all reach the database
SaveOrders == {<<"follower", "target">>, <<"target", "follower">>}

\* a handler from its plan to the response, both saves included
followHandler(op, plan, req, order) ==
  LET first == afterSave(users, plan.copies[order[1]], FALSE)
      second == afterSave(first.users, plan.copies[order[2]], FALSE)
  IN /\ users' = IF plan.status = "ok" THEN second.users ELSE users
     /\ last' = req @@ [op |-> op, n |-> last.n + 1, before |-> users,
                        status |-> IF plan.status # "ok" THEN plan.status
                                   ELSE IF first.ok /\ second.ok THEN "200"
                                   ELSE "error"]
     /\ UNCHANGED <<tableWrites, call, ret, probe, env, vlogs, bookmarks, pending, clock>>

\* followUser, from its first line to the response
followUser(req, order) == followHandler("followUser", followPlan(users, req), req, order)

\* unfollowUser, from its first line to the response
unfollowUser(req, order) == followHandler("unfollowUser", unfollowPlan(users, req), req, order)

\* the userId parameters tried: every user's id in lower case, two in upper
\* case, the id of no user and a string that is no ObjectId
UserIdParams == Users \cup {"ANN", "BOB", "zed", "n/a"}

FollowRequests == {[user |-> u, userId |-> v] : u \in {"ann", "bob"}, v \in UserIdParams}

\* POST /api/users/:userId/follow
FollowUser ==
  /\ last.n < MaxFollowSteps
  /\ \E req \in FollowRequests, order \in SaveOrders : followUser(req, order)

\* DELETE /api/users/:userId/follow
UnfollowUser ==
  /\ last.n < MaxFollowSteps
  /\ \E req \in FollowRequests, order \in SaveOrders : unfollowUser(req, order)

NextFollow ==
  \/ FollowUser
  \/ UnfollowUser

InitFollow == InitAccess

SpecFollow == InitFollow /\ [][NextFollow]_vars

\* followUser or unfollowUser up to the saves: the two findById, the checks
\* and the edits of the two copies.  An early return answers the request.
followRead(op, plan, req, slot) ==
  /\ freeSlot(slot)
  /\ pending' = pending \cup
       { [slot |-> slot, op |-> op, user |-> req.user, userId |-> req.userId,
          copies |-> plan.copies,
          todo |-> IF plan.status = "ok" THEN {"follower", "target"} ELSE {},
          failed |-> FALSE,
          status |-> IF plan.status = "ok" THEN InFlight ELSE plan.status] }
  /\ UNCHANGED <<tableWrites, call, ret, probe, env, vlogs, last, bookmarks, users, clock>>

\* one of the two saves of Promise.all reaches the database, or fails; the
\* request is answered when both have
followSave(p, which, fails) ==
  LET result == afterSave(users, p.copies[which], fails)
      failed == p.failed \/ ~result.ok
      todo == p.todo \ {which}
  IN /\ p.op \in {"followUser", "unfollowUser"}
     /\ p.status = InFlight
     /\ which \in p.todo
     /\ users' = result.users
     /\ pending' = (pending \ {p}) \cup
          { [p EXCEPT !.todo = todo, !.failed = failed,
                      !.status = IF todo # {} THEN InFlight
                                 ELSE IF failed THEN "error" ELSE "200"] }
     /\ UNCHANGED <<tableWrites, call, ret, probe, env, vlogs, last, bookmarks, clock>>

\* POST /api/users/:userId/follow begins
BeginFollow ==
  \E req \in FollowRequests, slot \in Slots :
    followRead("followUser", followPlan(users, req), req, slot)

\* DELETE /api/users/:userId/follow begins
BeginUnfollow ==
  \E req \in FollowRequests, slot \in Slots :
    followRead("unfollowUser", unfollowPlan(users, req), req, slot)

\* a save of a follow or unfollow request that has begun
SaveFollow ==
  \E p \in pending, which \in {"follower", "target"}, fails \in BOOLEAN :
    followSave(p, which, fails)

NextFollowRace ==
  \/ BeginFollow
  \/ BeginUnfollow
  \/ SaveFollow

SpecFollowRace == InitFollow /\ [][NextFollowRace]_vars

-----------------------------------------------------------------------------
(* recordView of the vlog controller, behind protect, in the steps between  *)
(* its awaits.                                                              *)

\* save() of a copy on which recordUniqueView pushed userId and raised views:
\* the push is sent as $push and appended to the array as stored, views is
\* sent as the number of the copy
saveView(stored, copy, userId) ==
  [stored EXCEPT !.userViews = Append(@, userId), !.views = copy.views,
                 !.version = @ + 1]

\* recordView up to save(): findById and recordUniqueView on the copy.  A
\* request that saves nothing is answered here.
recordViewRead(req, id, slot) ==
  LET vlog == vlogs[id]
      result == recordUniqueView(vlog, Str(req.user))
  IN /\ freeSlot(slot)
     /\ pending' = pending \cup
          { [slot |-> slot, op |-> "recordView", user |-> req.user, id |-> id,
             read |-> vlog,
             copy |-> IF found(vlog) THEN result.vlog ELSE vlog,
             saves |-> found(vlog) /\ result.saves,
             status |-> IF ~found(vlog) THEN "404"
                        ELSE IF result.saves THEN InFlight ELSE "200"] }
     /\ UNCHANGED <<tableWrites, call, ret, probe, env, vlogs, last, bookmarks, users, clock>>

\* recordView from save() to the response
recordViewSave(p) ==
  /\ p.op = "recordView"
  /\ p.status = InFlight
  /\ vlogs' = [vlogs EXCEPT ![p.id] = saveView(@, p.copy, p.user)]
  /\ pending' = (pending \ {p}) \cup {[p EXCEPT !.status = "200"]}
  /\ UNCHANGED <<tableWrites, call, ret, probe, env, last, bookmarks, users, clock>>

\* PUT /api/vlogs/:id/view begins
BeginRecordView ==
  \E user \in {"ann", "bob"}, id \in TargetIds, slot \in Slots :
    recordViewRead([user |-> user], id, slot)

\* a PUT /api/vlogs/:id/view that has begun goes on
EndRecordView ==
  \E p \in pending : recordViewSave(p)

NextViews ==
  \/ BeginRecordView
  \/ EndRecordView

SpecViews == InitBookmarks /\ [][NextViews]_vars

-----------------------------------------------------------------------------
(* toggleLike and toggleDislike: the methods of the Vlog model and the      *)
(* handlers of the vlog controller, behind protect.  userId is req.user.id, *)
(* the toString() of the user's id.                                         *)

\* list.indexOf(value), counted from 0; -1 when the value is not in the list
indexOf(list, value) ==
  IF inList(list, value)
  THEN (CHOOSE i \in 1..Len(list) :
          list[i] = value /\ \A j \in 1..(i - 1) : list[j] # value) - 1
  ELSE -1

\* list.splice(index, 1)
splice(list, index) == SubSeq(list, 1, index) \o SubSeq(list, index + 2, Len(list))

\* toggleLike that leaves the dislike in place
toggleLikeKeepsDislike(vlog, userId) ==
  LET likeIndex == indexOf(vlog.likes, userId)
  IN IF likeIndex > -1
     THEN [likes |-> Assigned(splice(vlog.likes, likeIndex)), dislikes |-> NoEdit]
     ELSE [likes |-> Pushed(userId), dislikes |-> NoEdit]

\* vlogSchema.methods.toggleLike(userId) on a loaded copy, up to save(): what
\* it did to the two arrays of the copy (splice leaves a changed array to
\* be written as a whole)
toggleLike(vlog, userId) ==
  LET likeIndex == indexOf(vlog.likes, userId)
      dislikeIndex == indexOf(vlog.dislikes, userId)
  IN IF likeIndex > -1
     THEN [likes |-> Assigned(splice(vlog.likes, likeIndex)), dislikes |-> NoEdit]
     ELSE [likes |-> Pushed(userId),
           dislikes |-> IF dislikeIndex > -1
                        THEN Assigned(splice(vlog.dislikes, dislikeIndex))
                        ELSE NoEdit]

\* vlogSchema.methods.toggleDislike(userId) on a loaded copy, up to save()
toggleDislike(vlog, userId) ==
  LET dislikeIndex == indexOf(vlog.dislikes, userId)
      likeIndex == indexOf(vlog.likes, userId)
  IN IF dislikeIndex > -1
     THEN [dislikes |-> Assigned(splice(vlog.dislikes, dislikeIndex)), likes |-> NoEdit]
     ELSE [dislikes |-> Pushed(userId),
           likes |-> IF likeIndex > -1
                     THEN Assigned(splice(vlog.likes, likeIndex))
                     ELSE NoEdit]

\* this.save() of a copy loaded with the given version: as for a user
\* document, an assigned array makes the save conditional on the version
saveVlog(stored, version, edits) ==
  IF "set" \in {edits.likes.kind, edits.dislikes.kind} /\ stored.version # version
  THEN [ok |-> FALSE, doc |-> stored]
  ELSE [ok |-> TRUE,
        doc |-> [stored EXCEPT !.likes = applyEdit(@, edits.likes),
                               !.dislikes = applyEdit(@, edits.dislikes),
                               !.version = @ + 1]]

\* a handler from findById to the response: the method runs on the vlog read
toggleHandler(op, edits, req, id) ==
  LET vlog == vlogs[id]
      result == saveVlog(vlog, vlog.version, edits)
  IN /\ vlogs' = IF found(vlog) THEN [vlogs EXCEPT ![id] = result.doc] ELSE vlogs
     /\ last' = req @@ [op |-> op, n |-> last.n + 1, id |-> id, before |-> vlog,
                        status |-> IF ~found(vlog) THEN "404"
                                   ELSE IF result.ok THEN "200" ELSE "error"]
     /\ UNCHANGED <<tableWrites, call, ret, probe, env, bookmarks, pending, users, clock>>

\* the likes and dislikes a vlog starts with: disjoint, nobody twice
StartingLikes ==
  { [likes |-> <<>>, dislikes |-> <<>>],
    [likes |-> <<"ann">>, dislikes |-> <<"bob">>],
    [likes |-> <<"bob", "ann">>, dislikes |-> <<>>],
    [likes |-> <<>>, dislikes |-> <<"root", "ann">>] }

\* a stored vlog with these likes and dislikes
LikedVlog(start) == [StoredVlog EXCEPT !.likes = start.likes, !.dislikes = start.dislikes]

InitLikes ==
  /\ tableWrites = <<>>
  /\ call = NoCall
  /\ ret = NoCall
  /\ probe = NoProbe
  /\ env = [AI_TAGGING_ENABLED |-> Undefined, MIN_DESCRIPTION_LENGTH |-> Undefined]
  /\ vlogs \in [VlogIds -> {Unused} \cup {LikedVlog(start) : start \in StartingLikes}]
  /\ last = NoRequest
  /\ bookmarks = [user \in Users |-> <<>>]
  /\ pending = {}
  /\ users = NewUsers
  /\ clock = 0

\* PUT /api/vlogs/:id/like
ToggleLike ==
  /\ last.n < MaxLikeSteps
  /\ \E user \in Users, id \in VlogIds :
       toggleHandler("toggleLike",
                     IF found(vlogs[id]) THEN toggleLike(vlogs[id], user) ELSE NoCopies,
                     [user |-> user], id)

\* PUT /api/vlogs/:id/dislike
ToggleDislike ==
  /\ last.n < MaxLikeSteps
  /\ \E user \in Users, id \in VlogIds :
       toggleHandler("toggleDislike",
                     IF found(vlogs[id]) THEN toggleDislike(vlogs[id], user) ELSE NoCopies,
                     [user |-> user], id)

NextLikes ==
  \/ ToggleLike
  \/ ToggleDislike

SpecLikes == InitLikes /\ [][NextLikes]_vars

\* a toggle handler up to save(): findById and the method's edits of the copy
toggleRead(op, req, id, slot) ==
  LET vlog == vlogs[id]
  IN /\ freeSlot(slot)
     /\ pending' = pending \cup
          { [slot |-> slot, op |-> op, user |-> req.user, id |-> id, read |-> vlog,
             edits |-> IF ~found(vlog) THEN NoCopies
                       ELSE IF op = "toggleLike" THEN toggleLike(vlog, req.user)
                       ELSE toggleDislike(vlog, req.user),
             status |-> IF found(vlog) THEN InFlight ELSE "404"] }
     /\ UNCHANGED <<tableWrites, call, ret, probe, env, vlogs, last, bookmarks, users, clock>>

\* a toggle handler from save() to the response
toggleSave(p) ==
  LET result == saveVlog(vlogs[p.id], p.read.version, p.edits)
  IN /\ p.op \in {"toggleLike", "toggleDislike"}
     /\ p.status = InFlight
     /\ vlogs' = [vlogs EXCEPT ![p.id] = result.doc]
     /\ pending' = (pending \ {p})
                     \cup {[p EXCEPT !.status = IF result.ok THEN "200" ELSE "error"]}
     /\ UNCHANGED <<tableWrites, call, ret, probe, env, last, bookmarks, users, clock>>

\* PUT /api/vlogs/:id/like or /dislike begins
BeginToggle ==
  \E op \in {"toggleLike", "toggleDislike"}, user \in Users, id \in VlogIds, slot \in Slots :
    toggleRead(op, [user |-> user], id, slot)

\* a PUT /api/vlogs/:id/like or /dislike that has begun goes on
EndToggle ==
  \E p \in pending : toggleSave(p)

NextLikeRace ==
  \/ BeginToggle
  \/ EndToggle

SpecLikeRace == InitLikes /\ [][NextLikeRace]_vars

-----------------------------------------------------------------------------
(* Refresh tokens: register and login of the auth controller, refreshToken  *)
(* and logout of the auth middleware, handled one request after the other.  *)
(* The clock counts the seconds jwt.sign stamps a token with.               *)

\* no document: User.findOne and User.findById give null
NoAccount == [state |-> "none"]

\* the users that send requests here
TokenUsers == {"ann", "bob"}

Seconds == 0..MaxClock

\* jwt.sign({ id }, secret, { expiresIn }): the payload is the id, the second
\* of signing (iat) and the expiry that follows from it, and the signature
\* is a function of the payload and the secret, so the token is one string
\* for one id, one secret and one second
jwtSign(id, secret, now) == id \o "." \o natToString(now) \o "." \o secret

\* generateRefreshToken, at the second `now`
generateRefreshToken(id, now) == jwtSign(id, "ref", now)

\* generateToken, at the second `now`
generateToken(id, now) == jwtSign(id, "acc", now)

\* the refresh tokens that verify: signed with JWT_REFRESH_SECRET, for an
\* account or for zed, who has none; none is old enough to be expired
SignedRefreshTokens ==
  {generateRefreshToken(id, now) : id \in TokenUsers \cup {"zed"}, now \in Seconds}

\* jwt.verify(refreshToken, process.env.JWT_REFRESH_SECRET)
jwtVerifyRefresh(token) ==
  IF token \in SignedRefreshTokens
  THEN Returns([id |-> splitOn(token, ".", "")[1]])
  ELSE Throws

\* User.findById(id), User.findOne({ email })
findUser(us, id) == IF id \in DOMAIN us THEN us[id] ELSE NoAccount

\* refreshToken up to the signing: the status it answers with, and the user
\* whose token it replaces
refreshChecks(us, body) ==
  IF ~truthy(body.refreshToken) THEN [status |-> "401"]
  ELSE LET decoded == jwtVerifyRefresh(body.refreshToken.s)
       IN IF decoded.kind = "throws" THEN [status |-> "401"]
          ELSE IF findUser(us, decoded.value.id) = NoAccount THEN [status |-> "401"]
          ELSE IF findUser(us, decoded.value.id).refreshToken # body.refreshToken
               THEN [status |-> "401"]
          ELSE [status |-> "200", id |-> decoded.value.id]

\* a request to the auth routes has been answered
respond(req, op, status, account, issued, us) ==
  /\ last' = req @@ [op |-> op, n |-> last.n + 1, before |-> users, at |-> clock,
                     status |-> status, account |-> account, issued |-> issued]
  /\ users' = us
  /\ UNCHANGED <<tableWrites, call, ret, probe, env, vlogs, bookmarks, pending, clock>>

\* exports.register
register(req) ==
  IF findUser(users, req.username) # NoAccount
  THEN respond(req, "register", "400", NoUser, Undefined, users)
  ELSE LET token == Str(generateRefreshToken(req.username, clock))
       IN respond(req, "register", "201", req.username, token,
                   [users EXCEPT ![req.username] = [NewUser EXCEPT !.refreshToken = token]])

\* exports.login
login(req) ==
  IF ~truthy(req.email) \/ ~truthy(req.password)
  THEN respond(req, "login", "400", NoUser, Undefined, users)
  ELSE IF findUser(users, req.email.s) = NoAccount \/ req.password.s # "secret"
  THEN respond(req, "login", "401", NoUser, Undefined, users)
  ELSE LET token == Str(generateRefreshToken(req.email.s, clock))
       IN respond(req, "login", "200", req.email.s, token,
                   [users EXCEPT ![req.email.s].refreshToken = token])

\* exports.refreshToken
refreshToken(req) ==
  LET checks == refreshChecks(users, req)
  IN IF checks.status # "200"
     THEN respond(req, "refreshToken", checks.status, NoUser, Undefined, users)
     ELSE LET token == Str(generateRefreshToken(checks.id, clock))
          IN respond(req, "refreshToken", "200", checks.id, token,
                      [users EXCEPT ![checks.id].refreshToken = token])

\* exports.logout
logout(req) ==
  respond(req, "logout", "200", req.user, Undefined,
           IF req.user # NoUser /\ findUser(users, req.user) # NoAccount
           THEN [users EXCEPT ![req.user].refreshToken = Str("")]
           ELSE users)

RegisterRequests == [username : TokenUsers]

LoginRequests ==
  [email : {Undefined} \cup {Str(user) : user \in TokenUsers \cup {"zed"}},
   password : {Undefined, Str("secret"), Str("wrong")}]

\* the bodies sent to the refresh route: every refresh token that verifies,
\* an access token, an empty string and no token
RefreshRequests ==
  [refreshToken : {Undefined, Str(""), Str(generateToken("ann", 0))}
                    \cup {Str(token) : token \in SignedRefreshTokens}]

\* req.user as the middleware before logout leaves it
LogoutRequests == [user : TokenUsers \cup {NoUser}]

\* POST /api/auth/register
Register ==
  /\ last.n < MaxTokenSteps
  /\ \E req \in RegisterRequests : register(req)

\* POST /api/auth/login
Login ==
  /\ last.n < MaxTokenSteps
  /\ \E req \in LoginRequests : login(req)

\* POST /api/auth/refresh
RefreshToken ==
  /\ last.n < MaxTokenSteps
  /\ \E req \in RefreshRequests : refreshToken(req)

\* POST /api/auth/logout
Logout ==
  /\ last.n < MaxTokenSteps
  /\ \E req \in LogoutRequests : logout(req)

\* a second passes
Tick ==
  /\ clock < MaxClock
  /\ clock' = clock + 1
  /\ UNCHANGED <<tableWrites, call, ret, probe, env, vlogs, last, bookmarks, pending, users>>

NextTokens ==
  \/ Register
  \/ Login
  \/ RefreshToken
  \/ Logout
  \/ Tick

\* nobody has registered
InitTokens ==
  /\ tableWrites = <<>>
  /\ call = NoCall
  /\ ret = NoCall
  /\ probe = NoProbe
  /\ env = [AI_TAGGING_ENABLED |-> Undefined, MIN_DESCRIPTION_LENGTH |-> Undefined]
  /\ vlogs = [id \in VlogIds |-> Unused]
  /\ last = NoRequest
  /\ bookmarks = [user \in Users |-> <<>>]
  /\ pending = {}
  /\ users = [user \in Users |-> NoAccount]
  /\ clock = 0

SpecTokens == InitTokens /\ [][NextTokens]_vars

-----------------------------------------------------------------------------
(* protect and optionalAuth before accounts that are active, inactive or    *)
(* without the field.                                                       *)

\* isActive as a stored account may hold it
ActiveValues == {Undefined, Bool(FALSE), Bool(TRUE)}

\* protect without the auto-activation: the document as it was loaded
activateNever(user) == user

\* protect on the document it loaded: an account that is inactive or has no
\* isActive is set active
activate(user) ==
  IF user.isActive = Undefined \/ user.isActive = Bool(FALSE)
  THEN [user EXCEPT !.isActive = Bool(TRUE)]
  ELSE user

\* User.findByIdAndUpdate(user._id, { isActive: true }), run when protect
\* activated its copy; an error of the update is ignored
storeActive(us, id, fails) ==
  IF activate(us[id]) = us[id] \/ fails THEN us
  ELSE [us EXCEPT ![id].isActive = Bool(TRUE)]

\* a request has passed through one of the two middlewares
passed(h, op, who, reqUser, fails, us) ==
  /\ last' = h @@ [op |-> op, n |-> last.n + 1, before |-> users, status |-> who.status,
                   user |-> IF who.status = "next" THEN who.user ELSE NoUser,
                   reqUser |-> reqUser, failed |-> fails]
  /\ users' = us
  /\ UNCHANGED <<tableWrites, call, ret, probe, env, vlogs, bookmarks, pending, clock>>

\* exports.protect, with what it leaves in req.user and in the database
protectRequest(h, fails) ==
  LET who == protect(h)
  IN IF who.status # "next" THEN passed(h, "protect", who, NoAccount, fails, users)
     ELSE passed(h, "protect", who, activate(users[who.user]), fails,
                 storeActive(users, who.user, fails))

\* exports.optionalAuth, with what it leaves in req.user
optionalAuthRequest(h) ==
  LET who == optionalAuth(h)
  IN passed(h, "optionalAuth", who,
            IF who.user = NoUser THEN NoAccount ELSE users[who.user], FALSE, users)

\* a request to a route behind protect
Protect ==
  /\ last.n < MaxActiveSteps
  /\ \E h \in Credentials, fails \in BOOLEAN : protectRequest(h, fails)

\* a request to a route behind optionalAuth
OptionalAuth ==
  /\ last.n < MaxActiveSteps
  /\ \E h \in Credentials : optionalAuthRequest(h)

NextActive ==
  \/ Protect
  \/ OptionalAuth

InitActive ==
  /\ tableWrites = <<>>
  /\ call = NoCall
  /\ ret = NoCall
  /\ probe = NoProbe
  /\ env = [AI_TAGGING_ENABLED |-> Undefined, MIN_DESCRIPTION_LENGTH |-> Undefined]
  /\ vlogs = [id \in VlogIds |-> Unused]
  /\ last = NoRequest
  /\ bookmarks = [user \in Users |-> <<>>]
  /\ pending = {}
  /\ users \in {[user \in Users |-> [NewUser EXCEPT !.isActive = active[user]]] :
                  active \in [Users -> ActiveValues]}
  /\ clock = 0

SpecActive == InitActive /\ [][NextActive]_vars

-----------------------------------------------------------------------------
(* Properties of the service *)

isCall(fn) == call # NoCall /\ call.fn = fn

noDuplicates(xs) == \A i, j \in 1..Len(xs) : xs[i] = xs[j] => i = j

emptyOrNoString(v) == IF v.t = "string" THEN v.s = "" ELSE TRUE

\* the taxonomy: the 18 category names
CategoryNames == {CategoryTagsTable[i].name : i \in 1..Len(CategoryTagsTable)}

\* C1 as stated: for all description, category and maxTags, generateTags
\* returns a list of at most maxTags entries, each of at least 3 characters,
\* none occurring twice.
C1_AsStated ==
  isCall("generateTags") =>
    /\ ret.kind = "returns"
    /\ Len(ret.value) <= orDefault(call.maxTags, Num(DefaultMaxTags)).n
    /\ \A i \in 1..Len(ret.value) : Len(ret.value[i]) >= 3
    /\ noDuplicates(ret.value)

\* C1 amended: for all description and category, generateTags returns a list
\* whose entries have at least 3 characters and do not repeat; the list has
\* at most maxTags entries whenever maxTags >= 0.
C1_TagsBounded ==
  isCall("generateTags") =>
    /\ ret.kind = "returns"
    /\ orDefault(call.maxTags, Num(DefaultMaxTags)).n >= 0
         => Len(ret.value) <= orDefault(call.maxTags, Num(DefaultMaxTags)).n
    /\ \A i \in 1..Len(ret.value) : Len(ret.value[i]) >= 3
    /\ noDuplicates(ret.value)

\* generateTags has cut the candidates "game", "pc" to maxTags = 1
C1_Witness ==
  /\ isCall("generateTags")
  /\ call.description = Str("games pc")
  /\ call.category = Str("gaming")
  /\ call.maxTags = Num(1)
  /\ ret = Returns(<<"game">>)

\* C2: a description that is no string or is the empty string gives the
\* empty list, and no exception, whatever category and maxTags are.
C2_EmptyForNoText ==
  (isCall("generateTags") /\ emptyOrNoString(call.description))
    => ret = Returns(<<>>)

C2_Witness ==
  /\ isCall("generateTags")
  /\ call.description = Null
  /\ call.category = Str("constructor")
  /\ call.maxTags = Num(0 - 1)
  /\ ret = Returns(<<>>)

\* C3: analyzeSentiment gives the label of the polarity score of the
\* tokenized, lowercased description: 'positive' above 0.1, 'negative' below
\* -0.1, 'neutral' otherwise.
C3_LabelOfScore ==
  (isCall("analyzeSentiment") /\ call.description.t = "string")
    => ret = Returns(sentimentLabel(getSentiment(tokenize(toLowerCase(call.description.s)))))

\* C4: for all inputs analyzeSentiment returns one of the three labels and
\* never raises; when its try block fails it returns 'neutral'.
C4_SentimentTotal ==
  isCall("analyzeSentiment") =>
    /\ ret.kind = "returns"
    /\ ret.value \in {"positive", "negative", "neutral"}
    /\ (\A build \in NaturalBuilds :
          analyzeSentimentTry(call.description, build).kind = "throws")
         => ret.value = "neutral"

C4_Witness ==
  /\ isCall("analyzeSentiment")
  /\ call.description = Null
  /\ ret = Returns("neutral")

\* C5: a category that is none of the 18 taxonomy names gives exactly what
\* the category 'other' gives.
C5_UnknownIsOther ==
  (isCall("generateTags") /\ toString(orDefault(call.category, Str("other"))) \notin CategoryNames)
    => ret = generateTags(call.description, Str("other"), call.maxTags)

\* the score the claim gives a category: how many of its keywords (as
\* the module lists them) occur in the text, each counted once
keywordHits(c, text) ==
  LET kw == CategoryTagsTable[CHOOSE i \in 1..Len(CategoryTagsTable) :
                                CategoryTagsTable[i].name = c].keywords
  IN Cardinality({w \in {kw[k] : k \in 1..Len(kw)} : includes(text, w)})

tableIndex(c) == CHOOSE i \in 1..Len(CategoryTagsTable) : CategoryTagsTable[i].name = c

\* c ranks before d: a greater score, or the same score and earlier in the table
ranksBefore(c, d, text) ==
  \/ keywordHits(c, text) > keywordHits(d, text)
  \/ keywordHits(c, text) = keywordHits(d, text) /\ tableIndex(c) < tableIndex(d)

\* C6: suggestCategories returns the first at most 3 of the categories of
\* score > 0, ordered by descending score, equal scores in table order; so
\* at most 3 names, each one of the 18 category names.
C6_TopThreeByScore ==
  isCall("suggestCategories") =>
    /\ ret.kind = "returns"
    /\ Len(ret.value) <= 3
    /\ \A i \in 1..Len(ret.value) : ret.value[i] \in CategoryNames
    /\ call.tags.t \in {"array", "undefined"} =>
         LET text == toLowerCase(toString(call.description) \o " "
                                   \o join(orDefault(call.tags, Arr(<<>>)).list))
             scoring == {c \in CategoryNames : keywordHits(c, text) > 0}
             r == ret.value
         IN /\ Len(r) = IF Cardinality(scoring) < 3 THEN Cardinality(scoring) ELSE 3
            /\ \A i \in 1..Len(r) : r[i] \in scoring
            /\ \A i, j \in 1..Len(r) : i < j => ranksBefore(r[i], r[j], text)
            /\ \A c \in scoring :
                 (\A i \in 1..Len(r) : r[i] # c)
                   => \A i \in 1..Len(r) : ranksBefore(r[i], c, text)

\* "gaming" scores 2 and comes after "food" (1) in the table; "sports" (1) is third
C6_Witness ==
  /\ isCall("suggestCategories")
  /\ call.description = Str("pc games")
  /\ call.tags = Arr(<<"food">>)
  /\ ret = Returns(<<"gaming", "food", "sports">>)

\* C7 as stated: for all description and maxPhrases, extractKeyPhrases
\* returns a list of at most maxPhrases entries and never raises; a
\* description that is no string or is empty gives the empty list.
C7_AsStated ==
  isCall("extractKeyPhrases") =>
    /\ ret.kind = "returns"
    /\ Len(ret.value) <= orDefault(call.maxPhrases, Num(DefaultMaxPhrases)).n
    /\ emptyOrNoString(call.description) => ret.value = <<>>

\* C7 amended: for all description and maxPhrases, extractKeyPhrases never
\* raises and gives the empty list for a description that is no string or is
\* empty; the list has at most maxPhrases entries whenever maxPhrases >= 0.
C7_PhrasesBounded ==
  isCall("extractKeyPhrases") =>
    /\ ret.kind = "returns"
    /\ orDefault(call.maxPhrases, Num(DefaultMaxPhrases)).n >= 0
         => Len(ret.value) <= orDefault(call.maxPhrases, Num(DefaultMaxPhrases)).n
    /\ emptyOrNoString(call.description) => ret.value = <<>>

\* three phrases were found and cut to maxPhrases = 2
C7_Witness ==
  /\ isCall("extractKeyPhrases")
  /\ call.description = Str("Home workout routine.")
  /\ call.maxPhrases = Num(2)
  /\ ret = Returns(<<"home workout routine", "home workout">>)

-----------------------------------------------------------------------------
(* Properties of the vlog controller: AI tagging on create and on update *)

isRequest(op) == last.op = op

\* AI_TAGGING_ENABLED is the string 'true'
taggingEnabled == env.AI_TAGGING_ENABLED = Str("true")

\* the request carries a description: a string that is not empty
carriesDescription(body) == body.description.t = "string" /\ body.description.s # ""

\* the description is at least MIN_DESCRIPTION_LENGTH characters long
reachesMinimum(body) ==
  LET minimum == Number(env.MIN_DESCRIPTION_LENGTH)
  IN /\ carriesDescription(body)
     /\ minimum.t = "number"
     /\ Len(body.description.s) >= minimum.n

\* the tags the request supplies, none when it has no tags field
suppliedTags(body) == IF body.tags.t = "array" THEN body.tags.list ELSE <<>>

\* a list of tags as the schema stores it: every tag trimmed and lowercased
asStored(tags) == [i \in 1..Len(tags) |-> toLowerCase(trim(tags[i]))]

\* the handler called generateTags on the description of the request
invokedOn(body) ==
  /\ call # NoCall
  /\ call.fn = "generateTags"
  /\ call.description = body.description
  /\ ret.kind = "returns"

reachedTagging == last.status \in {"200", "error"}

\* C10: updateVlog (for a request it does not reject beforehand) invokes the
\* tag generator exactly when the flag is 'true' and the request carries a
\* description, of any length; the update it applies then has the supplied
\* tags followed by the generator's output and aiGeneratedTags true; otherwise
\* tags and aiGeneratedTags of the update are those of the request body.  The
\* stored tags and aiGeneratedTags change only as that update says.
C10_TagsOnUpdate ==
  isRequest("updateVlog") /\ reachedTagging =>
    LET body == last.body
        tagging == taggingEnabled /\ carriesDescription(body)
        vlog == vlogs[last.id]
    IN /\ (call # NoCall) <=> tagging
       /\ tagging =>
            /\ invokedOn(body)
            /\ last.sent.tags = Arr(suppliedTags(body) \o ret.value)
            /\ last.sent.aiGeneratedTags = Bool(TRUE)
       /\ ~tagging =>
            /\ last.sent.tags = body.tags
            /\ last.sent.aiGeneratedTags = body.aiGeneratedTags
       /\ last.status = "200" =>
            /\ vlog.tags = IF last.sent.tags = Undefined THEN last.before.tags
                           ELSE asStored(last.sent.tags.list)
            /\ vlog.aiGeneratedTags =
                 IF last.sent.aiGeneratedTags = Undefined
                 THEN last.before.aiGeneratedTags
                 ELSE last.sent.aiGeneratedTags.b
       /\ last.status # "200" => vlog = last.before

\* an update whose description is shorter than MIN_DESCRIPTION_LENGTH is
\* tagged: the vlog was created without generated tags and now has them
C10_Witness ==
  /\ isRequest("updateVlog")
  /\ last.status = "200"
  /\ env.MIN_DESCRIPTION_LENGTH = Str("19")
  /\ last.body.description = Str("Travel vlog, games")
  /\ last.body.tags = Arr(<<"Fun ">>)
  /\ invokedOn(last.body)
  /\ ret.value # <<>>
  /\ ~last.before.aiGeneratedTags
  /\ vlogs[last.id].tags = <<"fun">> \o ret.value
  /\ vlogs[last.id].aiGeneratedTags

-----------------------------------------------------------------------------
(* Properties of the vlog routes *)

\* the request was for a vlog that existed, by a logged-in user other than
\* its author
byNonAuthor ==
  /\ last.op \in {"updateVlog", "deleteVlog"}
  /\ last.user # NoUser
  /\ found(last.before)
  /\ last.before.author # last.user

noToken == last.authorization = Undefined /\ last.cookie = Undefined

\* the Authorization header is Bearer with an empty token
emptyToken == last.authorization = Str("Bearer ")

\* the request has an Authorization header that is not a Bearer header
nonBearerHeader ==
  /\ last.authorization.t = "string"
  /\ last.authorization.s # ""
  /\ ~startsWith(last.authorization.s, "Bearer")

\* jwt.verify rejects the token, or the account it names does not exist
failsVerification(token) ==
  \/ jwtVerify(token).kind = "throws"
  \/ jwtVerify(token).value.id \notin Users

\* the token the request presents fails verification
failingToken ==
  LET token == tokenOf(last) IN truthy(token) /\ failsVerification(token.s)

\* the request has no token cookie that passes verification
noValidCookie == ~truthy(last.cookie) \/ failsVerification(last.cookie.s)

\* the request was answered with 401 by protect and the vlog is as it was
rejectedUnauthenticated ==
  /\ last.status = "401"
  /\ last.user = NoUser
  /\ vlogs[last.id] = last.before

\* C12, as stated: an update or delete request with no token, an empty token,
\* a non-Bearer Authorization header or a token that fails verification is
\* answered with 401 before the controller runs, and the vlog stays as it was.
C12_AsStated ==
  /\ last.op \in {"updateVlog", "deleteVlog"}
  /\ noToken \/ emptyToken \/ nonBearerHeader \/ failingToken
  => rejectedUnauthenticated

\* C12, amended: the same, where a non-Bearer Authorization header leads to
\* 401 when the request has no token cookie that passes verification.
C12_Unauthenticated ==
  /\ last.op \in {"updateVlog", "deleteVlog"}
  /\ noToken \/ emptyToken \/ (nonBearerHeader /\ noValidCookie) \/ failingToken
  => rejectedUnauthenticated

\* an update of an existing vlog with an expired token of its author
C12_Witness ==
  /\ last.op = "updateVlog"
  /\ last.authorization = Str("Bearer ann.exp")
  /\ found(last.before)
  /\ last.before.author = "ann"
  /\ rejectedUnauthenticated
  /\ found(vlogs[last.id])

\* C13: once a vlog has been deleted, its id does not resolve again: the next
\* request leaves it absent from the store, and a GET, PUT or DELETE for the
\* id that gets past the authentication is answered with 404.
C13_DeletedStaysDeleted ==
  [][\A id \in VlogIds :
       vlogs[id] = Deleted =>
         /\ vlogs'[id] = Deleted
         /\ (/\ last'.id = id
             /\ last'.op \in {"getVlog", "updateVlog", "deleteVlog"}
             /\ last'.status # "401") => last'.status = "404"]_vars

\* C14: an authorised deleteVlog on a vlog with n images calls deleteImage
\* once for each image, n times in all, and whichever of the calls fail, the
\* vlog is removed from the store and the response is 200.
C14_DeleteDespiteFailures ==
  /\ last.op = "deleteVlog"
  /\ last.user # NoUser
  /\ found(last.before)
  /\ mayChange(last.before, last.user)
  => /\ last.attempts = last.before.images
     /\ last.failed \subseteq 1..Len(last.before.images)
     /\ vlogs[last.id] = Deleted
     /\ last.status = "200"

\* a vlog with several images is deleted although some of the deleteImage
\* calls failed and some did not
C14_Witness ==
  /\ last.op = "deleteVlog"
  /\ last.status = "200"
  /\ Len(last.before.images) >= 2
  /\ Len(last.attempts) = Len(last.before.images)
  /\ last.failed # {}
  /\ last.failed # 1..Len(last.before.images)
  /\ vlogs[last.id] = Deleted

\* C15: after a successful updateVlog the stored author of the vlog is the
\* author it had before, whatever the request body carries.
C15_AuthorUnchanged ==
  isRequest("updateVlog") /\ last.status = "200" =>
    vlogs[last.id].author = last.before.author

\* the image list an update request results in: the images of the body, or
\* the stored ones when the body has none, followed by the uploaded files
resultingImages ==
  (IF last.body.images.t = "array" THEN last.body.images.list ELSE last.before.images)
    \o [i \in 1..last.files |-> "file" \o natToString(i)]

\* C16: updateVlog (for an existing vlog and a user who may change it)
\* rejects a resulting image list of 0 or of more than 10 entries with 400
\* and leaves the vlog as it was; it does not reject a list of 1 to 10
\* entries for its length; and a vlog it has written has that list, of 1 to
\* 10 images.
C16_ImageCount ==
  /\ last.op = "updateVlog"
  /\ last.user # NoUser
  /\ found(last.before)
  /\ mayChange(last.before, last.user)
  => LET n == Len(resultingImages)
     IN /\ (n = 0 \/ n > 10) => last.status = "400" /\ vlogs[last.id] = last.before
        /\ (n >= 1 /\ n <= 10) => last.status # "400"
        /\ last.status = "200" =>
             /\ vlogs[last.id].images = resultingImages
             /\ Len(vlogs[last.id].images) \in 1..10

\* a vlog of 10 images and an update that uploads one more: 400
C16_Witness ==
  /\ last.op = "updateVlog"
  /\ found(last.before)
  /\ Len(last.before.images) = 10
  /\ last.body.images = Undefined
  /\ last.files = 1
  /\ last.status = "400"
  /\ vlogs[last.id] = last.before

-----------------------------------------------------------------------------
(* Properties of overlapping requests *)

answered(p) == p.status # InFlight

\* an update by the author of the vlog it read, which passes the checks on
\* the images and the validation of what it sets
validByAuthor(p) ==
  /\ p.op = "updateVlog"
  /\ found(p.read)
  /\ p.read.author = p.user
  /\ updateChecks(p.read, [user |-> p.user, body |-> p.body, files |-> p.files]).status = "ok"
  /\ validUpdate(p.sent)

\* the titles the two requests carry, as the schema stores them
titlesOf(p, q) ==
  { trim(r.body.title.s) : r \in {r \in {p, q} : r.body.title.t = "string"} }

\* C17: when two valid updates of one vlog by its author are all the requests
\* there are and both are answered, both have status 200, the stored vlog is
\* the document one of the two responses carries, and its title is the title
\* of one of the two requests (of those that carry a title).
C17_LastWriteWins ==
  \A p, q \in pending :
    ( /\ pending = {p, q}
      /\ p.slot # q.slot
      /\ p.id = q.id
      /\ answered(p) /\ answered(q)
      /\ validByAuthor(p) /\ validByAuthor(q) )
    => /\ p.status = "200" /\ q.status = "200"
       /\ vlogs[p.id] \in {p.data, q.data}
       /\ titlesOf(p, q) # {} => vlogs[p.id].title \in titlesOf(p, q)

\* two such updates with different titles that overlapped: both read the
\* vlog before either wrote, and both are answered
C17_Witness ==
  \E p, q \in pending :
    /\ pending = {p, q}
    /\ p.slot # q.slot
    /\ p.id = q.id
    /\ answered(p) /\ answered(q)
    /\ validByAuthor(p) /\ validByAuthor(q)
    /\ Cardinality(titlesOf(p, q)) = 2
    /\ p.read = q.read
    /\ p.data # q.data
    /\ p.status = "200" /\ q.status = "200"

-----------------------------------------------------------------------------
(* Properties of the bookmark handlers *)

\* C18: a bookmarks array never holds the same vlog id twice, and addBookmark
\* for a vlog that is already in the array is answered 200 and leaves the
\* array as it was.
C18_NoDuplicateBookmarks ==
  /\ \A user \in Users : noDuplicates(bookmarks[user])
  /\ ( /\ isRequest("addBookmark")
       /\ castObjectId(last.vlogId) # CastError
       /\ \E i \in 1..Len(last.before) : last.before[i] = castObjectId(last.vlogId) )
     => last.status = "200" /\ bookmarks[last.user] = last.before

\* C19: when the requests of a behaviour are addBookmark requests of one
\* user for distinct vlogs that exist, and all are answered, all have status
\* 200 and the user's bookmarks hold every one of those vlogs.
C19_NoAddLost ==
  ( /\ pending # {}
    /\ \A p \in pending : p.op = "addBookmark" /\ answered(p)
    /\ \A p, q \in pending : p.user = q.user
    /\ \A p, q \in pending : p.id = q.id => p = q
    /\ \A p \in pending : p.id # CastError /\ found(vlogs[p.id]) )
  => \A p \in pending :
       /\ p.status = "200"
       /\ \E i \in 1..Len(bookmarks[p.user]) : bookmarks[p.user][i] = p.id

\* two such requests that overlapped: both read the array before either
\* saved, both saved and both are answered
C19_Witness ==
  \E p, q \in pending :
    /\ pending = {p, q}
    /\ p.slot # q.slot
    /\ p.user = q.user
    /\ p.id # q.id
    /\ p.id # CastError /\ found(vlogs[p.id])
    /\ q.id # CastError /\ found(vlogs[q.id])
    /\ p.read = <<>> /\ q.read = <<>>
    /\ p.status = "200" /\ q.status = "200"
    /\ Len(bookmarks[p.user]) = 2

\* the entries of a list that are not the id v, in their order
othersOf(list, v) == SelectSeq(list, LAMBDA id : id # v)

\* C20: removeBookmark(v) leaves the entries that are not v, in their order,
\* and no entry that is v; it is answered 200 with bookmarked = false; when
\* v is not in the list, or is the id of no vlog, the list stays as it was.
C20_RemovesExactly ==
  isRequest("removeBookmark")
  => LET v == castObjectId(last.vlogId)
     IN /\ last.status = "200" /\ ~last.bookmarked
        /\ bookmarks[last.user] = othersOf(last.before, v)

-----------------------------------------------------------------------------
(* Properties of followUser and unfollowUser *)

\* the user a follow request names
targetOf(request) == castUserId(request.userId)

\* C21: followUser is answered 400 and changes no list when the target is
\* the requester or the requester already follows the target; unfollowUser
\* is answered 400 and changes no list when the requester does not follow
\* the target; no user is in their own following or followers, and no list
\* holds a user twice.
C21_FollowRejections ==
  /\ ( /\ isRequest("followUser")
       /\ \/ targetOf(last) = last.user
          \/ inList(last.before[last.user].following, targetOf(last)) )
     => last.status = "400" /\ users = last.before
  /\ ( /\ isRequest("unfollowUser")
       /\ targetOf(last) \in Users
       /\ ~inList(last.before[last.user].following, targetOf(last)) )
     => last.status = "400" /\ users = last.before
  /\ \A user \in Users :
       /\ ~inList(users[user].following, user)
       /\ ~inList(users[user].followers, user)
       /\ noDuplicates(users[user].following)
       /\ noDuplicates(users[user].followers)

\* C22: a followUser answered 200 leaves the target in the requester's
\* following and the requester in the target's followers, an unfollowUser
\* answered 200 leaves neither, and at all times B is in A.following if and
\* only if A is in B.followers.
C22_FollowSymmetric ==
  /\ (isRequest("followUser") /\ last.status = "200")
     => /\ inList(users[last.user].following, targetOf(last))
        /\ inList(users[targetOf(last)].followers, last.user)
  /\ (isRequest("unfollowUser") /\ last.status = "200")
     => /\ ~inList(users[last.user].following, targetOf(last))
        /\ ~inList(users[targetOf(last)].followers, last.user)
  /\ \A A, B \in Users :
       inList(users[A].following, B) <=> inList(users[B].followers, A)

\* C28: in every state, B is in A.following if and only if A is in
\* B.followers, also while follow and unfollow requests overlap and when a
\* save fails.
C28_BothOrNeither ==
  \A A, B \in Users :
    /\ inList(users[A].following, B) => inList(users[B].followers, A)
    /\ inList(users[B].followers, A) => inList(users[A].following, B)

-----------------------------------------------------------------------------
(* Properties of recordView *)

\* C23: recordUniqueView(userId) raises views by 1, appends userId to
\* userViews and saves exactly when userId is not null and not in userViews,
\* and otherwise changes and saves nothing; userViews never holds a user
\* twice; the recordView requests of one user raise views at most once.
C23_UniqueViews ==
  /\ \A p \in pending :
       (p.op = "recordView" /\ found(p.read))
       => IF ~inList(p.read.userViews, p.user)
          THEN /\ p.copy.views = p.read.views + 1
               /\ p.copy.userViews = Append(p.read.userViews, p.user)
               /\ p.saves
          ELSE p.copy = p.read /\ ~p.saves
  /\ \A id \in DOMAIN vlogs :
       found(vlogs[id])
       => /\ noDuplicates(vlogs[id].userViews)
          /\ vlogs[id].views
               <= Cardinality({p.user : p \in {q \in pending : q.op = "recordView" /\ q.id = id}})

-----------------------------------------------------------------------------
(* Properties of toggleLike and toggleDislike *)

\* nobody is in both lists of the vlog, or twice in one
exclusive(vlog) ==
  /\ noDuplicates(vlog.likes)
  /\ noDuplicates(vlog.dislikes)
  /\ \A user \in Users : ~(inList(vlog.likes, user) /\ inList(vlog.dislikes, user))

\* what a toggle of the list mine by user did to a vlog: it flipped the
\* user in mine, took the user out of the list other when it put the user
\* into mine, and changed nobody else in either list
toggled(user, mineBefore, mineAfter, otherBefore, otherAfter) ==
  /\ inList(mineAfter, user) <=> ~inList(mineBefore, user)
  /\ inList(mineAfter, user) => ~inList(otherAfter, user)
  /\ ~inList(mineAfter, user) => (inList(otherAfter, user) <=> inList(otherBefore, user))
  /\ \A w \in Users \ {user} :
       /\ inList(mineAfter, w) <=> inList(mineBefore, w)
       /\ inList(otherAfter, w) <=> inList(otherBefore, w)

\* C26: with the requests run one at a time, nobody is in both likes and
\* dislikes of a vlog or twice in one of them; toggleLike by u flips u in
\* likes, removes u from dislikes when it adds the like, and changes nobody
\* else; toggleDislike does the same with the lists exchanged.
C26_TogglesExclusive ==
  /\ \A id \in VlogIds : found(vlogs[id]) => exclusive(vlogs[id])
  /\ (isRequest("toggleLike") /\ found(last.before))
     => /\ last.status = "200"
        /\ toggled(last.user, last.before.likes, vlogs[last.id].likes,
                   last.before.dislikes, vlogs[last.id].dislikes)
  /\ (isRequest("toggleDislike") /\ found(last.before))
     => /\ last.status = "200"
        /\ toggled(last.user, last.before.dislikes, vlogs[last.id].dislikes,
                   last.before.likes, vlogs[last.id].likes)

\* a like by a user who disliked the vlog, among other users in both lists
C26_Witness ==
  /\ isRequest("toggleLike")
  /\ found(last.before)
  /\ inList(last.before.dislikes, last.user)
  /\ Len(last.before.dislikes) = 2
  /\ inList(vlogs[last.id].likes, last.user)
  /\ Len(vlogs[last.id].dislikes) = 1

\* C27: also when toggleLike and toggleDislike requests of one user on one
\* vlog overlap, the stored vlog never has a user in both likes and
\* dislikes, nor twice in one of them.
C27_ExclusiveUnderOverlap ==
  \A id \in VlogIds :
    found(vlogs[id])
    => /\ \A user \in Users : ~(inList(vlogs[id].likes, user) /\ inList(vlogs[id].dislikes, user))
       /\ noDuplicates(vlogs[id].likes)
       /\ noDuplicates(vlogs[id].dislikes)

-----------------------------------------------------------------------------
(* Properties of the tag pipeline's construction *)

\* one string occurs inside the other
overlaps(a, b) == includes(a, b) \/ includes(b, a)

\* the keyword list of a category: its own when it is a taxonomy name, the
\* list of 'other' when it is not
keywordsOf(category) ==
  LET name == IF category \in CategoryNames THEN category ELSE "other"
  IN getProperty(CATEGORY_TAGS, name).list

\* a list without the later occurrences of its entries
RECURSIVE keepFirst(_)
keepFirst(list) ==
  IF list = <<>> THEN <<>>
  ELSE LET rest == keepFirst(Tail(list))
       IN <<Head(list)>> \o SelectSeq(rest, LAMBDA x : x # Head(list))

\* the first n entries of a list
firstEntries(list, n) == [i \in 1..(IF n < Len(list) THEN n ELSE Len(list)) |-> list[i]]

\* the keywords the three-way test keeps: in the text, or holding a frequent
\* token, or held by one
keptKeywords(list, text, sorted) ==
  SelectSeq(list, LAMBDA tag : \/ includes(text, tag)
                               \/ \E i \in 1..Len(sorted) : overlaps(tag, sorted[i]))

\* the result as the three parts, deduplicated, cut and filtered give it
builtTags(description, category, maxTags) ==
  LET text == cleanText(description)
      sorted == sortedWords(filteredTokens(text))
      keywords == keptKeywords(keywordsOf(category), text, sorted)
      frequent == SelectSeq(sorted,
                    LAMBDA word : /\ ~inList(keywords, word)
                                  /\ \E i \in 1..Len(COMMON_TAGS) : overlaps(word, COMMON_TAGS[i]))
      common == SelectSeq(COMMON_TAGS, LAMBDA tag : includes(text, tag))
      cut == firstEntries(keepFirst(keywords \o frequent \o common), maxTags)
  IN SelectSeq(cut, LAMBDA tag : Len(tag) >= 3)

\* a generateTags call with a text to tag and a count to cut to
tagging(c) ==
  /\ c # NoCall /\ c.fn = "generateTags"
  /\ c.description.t = "string" /\ c.description.s # ""
  /\ orDefault(c.maxTags, Num(DefaultMaxTags)).n >= 0

\* C24: the result of generateTags is the relevant category keywords, then
\* the frequent tokens not among them that overlap a common tag, then the
\* common tags in the text; deduplicated keeping first occurrences, cut to
\* the first maxTags entries, and only then freed of entries shorter than 3.
C24_BuiltInOrder ==
  tagging(call) =>
    ret = Returns(builtTags(call.description.s,
                            toString(orDefault(call.category, Str("other"))),
                            orDefault(call.maxTags, Num(DefaultMaxTags)).n))

\* the same, for the categories whose entry in CATEGORY_TAGS is a list or is
\* missing
C24_BuiltInOrderOfLists ==
  (tagging(call) /\ toString(orDefault(call.category, Str("other"))) \notin ObjectPrototypeKeys)
    => ret = Returns(builtTags(call.description.s,
                               toString(orDefault(call.category, Str("other"))),
                               orDefault(call.maxTags, Num(DefaultMaxTags)).n))

\* the cut to 1 kept "pc" alone, the filter dropped it, and "tech" was left out
C24_CutBeforeFilter ==
  /\ isCall("generateTags")
  /\ call.description = Str("pc tech")
  /\ call.category = Str("gaming")
  /\ call.maxTags = Num(1)
  /\ ret = Returns(<<>>)

\* CATEGORY_TAGS[category] || CATEGORY_TAGS.other, as generateTags selects it
selectedTags(category) ==
  LET own == getProperty(CATEGORY_TAGS, category)
  IN IF truthy(own) THEN own ELSE getProperty(CATEGORY_TAGS, "other")

\* C25: of the selected category list, the test of generateTags (the text
\* contains the keyword, or the keyword contains a frequent token) keeps
\* exactly the keywords that are in the text, or contain a frequent token, or
\* are contained in one.
C25_SameKeywords ==
  (/\ isCall("generateTags")
   /\ call.description.t = "string" /\ call.description.s # ""
   /\ selectedTags(toString(orDefault(call.category, Str("other")))).t = "array")
    => LET text == cleanText(call.description.s)
           sorted == sortedWords(filteredTokens(text))
           list == selectedTags(toString(orDefault(call.category, Str("other")))).list
       IN relevantCategoryTags(list, text, sorted) = keptKeywords(list, text, sorted)

\* "game" was kept for the text "games": it is inside the token "games",
\* which is not inside it
C25_Witness ==
  /\ isCall("generateTags")
  /\ call.description = Str("games")
  /\ call.category = Str("gaming")
  /\ includes("games", "game") /\ ~includes("game", "games")
  /\ inList(sortedWords(filteredTokens(cleanText("games"))), "games")
  /\ ret.kind = "returns" /\ inList(ret.value, "game")

-----------------------------------------------------------------------------
(* Properties of the refresh tokens *)

\* the refresh route would answer this token with 200
accepted(token) == refreshChecks(users, [refreshToken |-> token]).status = "200"

\* the token stored for the account of the last request before that request
storedBefore == findUser(last.before, last.account).refreshToken

\* the last request replaced or cleared the stored token of an account that
\* had one: a login or a refresh answered 200, or a logout of a user
replaced ==
  /\ last.op \in {"login", "refreshToken", "logout"}
  /\ last.status = "200"
  /\ last.account # NoUser
  /\ findUser(last.before, last.account) # NoAccount

\* C29: the refresh route accepts at most one refresh token per user, the
\* one stored by the last register, login or refresh; the token that was
\* stored before a refresh that used it, before a new login or before a
\* logout is rejected afterwards; a rejected refresh changes no stored token.
C29_OneRefreshToken ==
  /\ \A req \in RefreshRequests :
       accepted(req.refreshToken) =>
         \E user \in TokenUsers :
           /\ findUser(users, user) # NoAccount
           /\ users[user].refreshToken = req.refreshToken
           /\ \A other \in RefreshRequests :
                (accepted(other.refreshToken)
                   /\ jwtVerifyRefresh(other.refreshToken.s).value.id = user)
                  => other = req
  /\ (last.op \in {"register", "login", "refreshToken"} /\ last.status \in {"200", "201"})
       => users[last.account].refreshToken = last.issued
  /\ replaced => ~accepted(storedBefore)
  /\ (last.op = "refreshToken" /\ last.status = "401") => users = last.before

\* the same, for a token that was signed in an earlier second than the one
\* of the request that replaces it
C29_RejectedWhenOlder ==
  (replaced /\ storedBefore.t = "string"
            /\ \A now \in Seconds :
                 storedBefore.s = generateRefreshToken(last.account, now) => now < last.at)
    => ~accepted(storedBefore)

\* a refresh was answered 200 and the token it used is still accepted
C29_UsedTokenAccepted ==
  /\ last.op = "refreshToken"
  /\ last.status = "200"
  /\ accepted(last.refreshToken)

-----------------------------------------------------------------------------
(* Properties of protect and optionalAuth on inactive accounts *)

\* the token of the last request verifies and names an existing user
namesUser(user) ==
  /\ tokenOf(last).t = "string"
  /\ tokenOf(last).s \in SignedTokens
  /\ jwtVerify(tokenOf(last).s).value.id = user

\* C30: a request whose token verifies and names an existing user passes
\* protect whatever isActive that user has, and carries the user with
\* isActive = true afterwards (as does the stored account, unless the update
\* failed); optionalAuth attaches the user only when isActive is true
\* already, and leaves every isActive as it is.
C30_ProtectActivates ==
  \A user \in Users :
    /\ (last.op = "protect" /\ namesUser(user))
         => /\ last.status = "next"
            /\ last.user = user
            /\ last.reqUser.isActive = Bool(TRUE)
            /\ ~last.failed => users[user].isActive = Bool(TRUE)
            /\ \A other \in Users \ {user} : users[other] = last.before[other]
    /\ (last.op = "optionalAuth" /\ namesUser(user))
         => /\ last.user # NoUser
                 => (last.user = user /\ last.before[user].isActive = Bool(TRUE))
            /\ users = last.before

\* an inactive user has passed protect and is active in the request and
\* in the database
C30_Witness ==
  /\ last.op = "protect"
  /\ namesUser("ann")
  /\ last.before["ann"].isActive = Bool(FALSE)
  /\ last.status = "next"
  /\ last.reqUser.isActive = Bool(TRUE)
  /\ users["ann"].isActive = Bool(TRUE)

\* the same user, inactive, was not attached by optionalAuth
C30_NotAttached ==
  /\ last.op = "optionalAuth"
  /\ namesUser("ann")
  /\ last.before["ann"].isActive = Bool(FALSE)
  /\ last.user = NoUser
  /\ users["ann"].isActive = Bool(FALSE)

=============================================================================
